---- MODULE Spec2Model ----
(***************************************************************************)
(* Conversation-memory pipeline of the AI tutor backend:                   *)
(*   VectorMemoryService  (backend/services/vectorMemoryService.js)        *)
(*   DSPyIntegrationService (backend/services/dspyIntegrationService.js)   *)
(*   GeminiService        (backend/services/fileProcessingService.js)      *)
(*   memory routes and the chat endpoint (unnamed/part_005)                *)
(*                                                                         *)
(* Texts are sequences of words.  An embedding is a short integer vector.  *)
(* A similarity is kept exactly, as the signed square of the cosine        *)
(* (s * n / d with d > 0), which orders values as the cosine itself does.  *)
(* Timestamps are clock ticks: toISOString followed by new Date() gives    *)
(* back the same millisecond value.                                        *)
(***************************************************************************)
EXTENDS Integers, Sequences, FiniteSets, TLC

\* ------------------------------------------------------------------ bounds
MaxStore == 2        \* records the in-memory store may hold in Spec
MaxMemStore == 4     \* records the in-memory store may hold in SpecMemory
MaxMessageCount == 2 \* largest messageCount of a Conversation
MaxClock == 2        \* largest clock value
MaxLimit == 3        \* largest limit a memory route is called with
MaxRoundTripTurns == 11 \* turns of one conversation in SpecRoundTrip

\* ------------------------------------------------------------- input sets
PlainMsg  == <<"what", "is", "recursion">>
RecallMsg == <<"do", "you", "remember", "recursion">>
NoMessage == <<>>
LlmText   == <<"recursion", "calls", "itself">>
DspyText  == <<"think", "of", "mirrors">>

Messages  == {PlainMsg, RecallMsg}

NoConv    == ""
ConvIds   == {"c1", "c2"}
ChatConvIds == {NoConv, "c1"}

\* the remote embedding model (text-embedding-004), as a fixed table
Embedding(text) ==
    CASE text = PlainMsg  -> <<1, 0>>
      [] text = RecallMsg -> <<1, 1>>
      [] text = LlmText   -> <<-1, 2>>
      [] OTHER            -> <<0, 0>>

\* --------------------------------------------------------- pure functions
RECURSIVE DotProduct(_, _)
DotProduct(vecA, vecB) ==
    IF vecA = <<>> THEN 0
    ELSE Head(vecA) * Head(vecB) + DotProduct(Tail(vecA), Tail(vecB))

Sign(x) == IF x > 0 THEN 1 ELSE IF x < 0 THEN -1 ELSE 0

ZeroSim == [s |-> 0, n |-> 0, d |-> 1]

\* mutant: no branch for a zero norm, the division 0 / 0 gives NaN (d = 0)
cosineSimilarity_NoZeroBranch(vecA, vecB) ==
    IF Len(vecA) # Len(vecB) THEN [s |-> 2, n |-> 0, d |-> 1]
    ELSE [s |-> Sign(DotProduct(vecA, vecB)),
          n |-> DotProduct(vecA, vecB) * DotProduct(vecA, vecB),
          d |-> DotProduct(vecA, vecA) * DotProduct(vecB, vecB)]

\* cosineSimilarity: "throw" on a length mismatch, 0 on a zero norm, else
\* dot / (|a| |b|), kept as s * n / d = sign(dot) * dot^2 / (|a|^2 |b|^2)
cosineSimilarity(vecA, vecB) ==
    IF Len(vecA) # Len(vecB) THEN [s |-> 2, n |-> 0, d |-> 1]
    ELSE LET dot   == DotProduct(vecA, vecB)
             normA == DotProduct(vecA, vecA)
             normB == DotProduct(vecB, vecB)
         IN  IF normA = 0 \/ normB = 0 THEN ZeroSim
             ELSE [s |-> Sign(dot), n |-> dot * dot, d |-> normA * normB]

SimThrows(sim) == sim.s = 2

\* x < y on similarities
SimLess(x, y) == x.s * x.n * y.d < y.s * y.n * x.d

\* /remember|recall|previous|earlier|before|conversation about|discussed|talked about/i
RecallWords == {"remember", "recall", "previous", "earlier", "before", "discussed"}
RecallPairs == {<<"conversation", "about">>, <<"talked", "about">>}
isMemoryQuery(userMessage) ==
    \/ \E i \in 1..Len(userMessage) : userMessage[i] \in RecallWords
    \/ \E i \in 1..(Len(userMessage) - 1) :
          <<userMessage[i], userMessage[i + 1]>> \in RecallPairs

\* Array.prototype.slice(0, end): a negative end counts from the back
Slice0(seq, end) ==
    LET len == Len(seq)
        k   == IF end < 0 THEN (IF len + end < 0 THEN 0 ELSE len + end)
               ELSE (IF end > len THEN len ELSE end)
    IN  SubSeq(seq, 1, k)

\* Array.prototype.sort is stable: x goes after every element it is not
\* strictly before.
RECURSIVE InsertBySimilarity(_, _)
InsertBySimilarity(sorted, x) ==
    IF sorted = <<>> THEN <<x>>
    ELSE IF SimLess(Head(sorted).similarity, x.similarity)
         THEN <<x>> \o sorted
         ELSE <<Head(sorted)>> \o InsertBySimilarity(Tail(sorted), x)

\* mutant: the sort is left out
SortBySimilarity_Unsorted(results) == results

\* results.sort((a, b) => b.similarity - a.similarity)
RECURSIVE SortBySimilarity(_)
SortBySimilarity(results) ==
    IF results = <<>> THEN <<>>
    ELSE InsertBySimilarity(
             SortBySimilarity(SubSeq(results, 1, Len(results) - 1)),
             results[Len(results)])

RECURSIVE InsertByTimestamp(_, _)
InsertByTimestamp(sorted, x) ==
    IF sorted = <<>> THEN <<x>>
    ELSE IF x.timestamp < Head(sorted).timestamp
         THEN <<x>> \o sorted
         ELSE <<Head(sorted)>> \o InsertByTimestamp(Tail(sorted), x)

\* results.sort((a, b) => new Date(a.metadata.timestamp) - new Date(b.metadata.timestamp))
RECURSIVE SortByTimestamp(_)
SortByTimestamp(results) ==
    IF results = <<>> THEN <<>>
    ELSE InsertByTimestamp(
             SortByTimestamp(SubSeq(results, 1, Len(results) - 1)),
             results[Len(results)])

\* ------------------------------------------------------------------ state
VARIABLES
    apiKey,            \* GOOGLE_API_KEY is set
    isEnabled,         \* ENABLE_DSPY_INTEGRATION === 'true'
    fallbackToGemini,  \* DSPY_FALLBACK_TO_GEMINI !== 'false'
    vectorStore,       \* the Map, in insertion order
    idCounter,
    isInitialized,
    isHealthy,
    lastHealthCheck,
    conversations,     \* the Conversation collection
    clock,             \* Date.now()
    calls,             \* the asynchronous calls in flight, each at an await
    fileDocs,          \* the File collection: fileId -> document
    page,              \* the state of the ChatPage component
    posts,             \* the POST /api/chat requests ChatPage has sent
    admin,             \* the stored Admin document
    loaded,            \* the Admin documents handlers hold, as they were read
    out                \* what the last operation returned to its caller

vars == <<apiKey, isEnabled, fallbackToGemini, vectorStore, idCounter,
          isInitialized, isHealthy, lastHealthCheck, conversations, clock, calls,
          fileDocs, page, posts, admin, loaded, out>>

\* the fields of VectorMemoryService an operation reads and writes
Memory == [vectorStore |-> vectorStore, idCounter |-> idCounter,
           isInitialized |-> isInitialized]

\* ------------------------------------------------- VectorMemoryService
\* Each method is a chain of steps; a step takes the values computed so far
\* as parameters and hands its own on to the next step.
initialize(vm) ==
    IF ~apiKey THEN [vm EXCEPT !.isInitialized = FALSE]
    ELSE [vectorStore |-> <<>>, idCounter |-> 0, isInitialized |-> TRUE]

\* if (!this.isInitialized) await this.initialize()
ensureInitialized(vm) == IF vm.isInitialized THEN vm ELSE initialize(vm)

\* embedContent answers (providerOk) or the call throws
generateEmbedding(text, providerOk) ==
    [ok |-> providerOk, values |-> IF providerOk THEN Embedding(text) ELSE <<>>]

\* Map.prototype.set: an existing key keeps its place, a new one is appended
MapSet(store, doc) ==
    IF \E i \in 1..Len(store) : store[i].id = doc.id
    THEN [i \in 1..Len(store) |-> IF store[i].id = doc.id THEN doc ELSE store[i]]
    ELSE Append(store, doc)

Doc(id, embedding, document, type, conversationId, timestamp) ==
    [id |-> id, embedding |-> embedding, document |-> document, type |-> type,
     conversationId |-> conversationId, timestamp |-> timestamp]

\* mutant: the counter is read but not advanced
StoreDoc_CounterKept(vm, infix, type, conversationId, document, embedding, timestamp) ==
    [vm EXCEPT
       !.vectorStore = MapSet(@, Doc(conversationId \o infix \o ToString(vm.idCounter),
                                     embedding, document, type, conversationId,
                                     timestamp))]

\* `${conversationId}_user_${this.idCounter++}` and this.vectorStore.set(...)
StoreDoc(vm, infix, type, conversationId, document, embedding, timestamp) ==
    [vm EXCEPT
       !.idCounter = @ + 1,
       !.vectorStore = MapSet(@, Doc(conversationId \o infix \o ToString(vm.idCounter),
                                     embedding, document, type, conversationId,
                                     timestamp))]

\* storeConversation, the AI response: v1 holds the user message
StoreAiResponse(v1, conversationId, aiResponse, timestamp, aiEmbedding) ==
    IF ~aiEmbedding.ok THEN [thrown |-> FALSE, vm |-> v1]
    ELSE [thrown |-> FALSE,
          vm |-> StoreDoc(v1, "_ai_", "ai_response", conversationId, aiResponse,
                          aiEmbedding.values, timestamp)]

\* storeConversation, the user message
StoreUserMessage(v0, conversationId, userMessage, aiResponse, timestamp, userEmbedding, aiOk) ==
    IF ~v0.isInitialized THEN [thrown |-> FALSE, vm |-> v0]
    ELSE IF ~userEmbedding.ok THEN [thrown |-> FALSE, vm |-> v0]
    ELSE StoreAiResponse(StoreDoc(v0, "_user_", "user_message", conversationId,
                                  userMessage, userEmbedding.values, timestamp),
                         conversationId, aiResponse, timestamp,
                         generateEmbedding(aiResponse, aiOk))

\* storeConversation: [thrown, vm].  The caller's metadata.timestamp replaces
\* the local one, so both records carry `timestamp`.  userOk/aiOk: the two
\* embedding calls; a failed one is caught and ends the call.
storeConversation(vm, conversationId, userMessage, aiResponse, timestamp, userOk, aiOk) ==
    StoreUserMessage(ensureInitialized(vm), conversationId, userMessage, aiResponse,
                     timestamp, generateEmbedding(userMessage, userOk), aiOk)

RECURSIVE ScoreDocs(_, _, _)
ScoreDocs(store, queryEmbedding, conversationId) ==
    IF store = <<>> THEN <<>>
    ELSE IF conversationId # NoConv /\ Head(store).conversationId # conversationId
    THEN ScoreDocs(Tail(store), queryEmbedding, conversationId)
    ELSE <<[content |-> Head(store).document, type |-> Head(store).type,
            conversationId |-> Head(store).conversationId,
            timestamp |-> Head(store).timestamp,
            similarity |-> cosineSimilarity(queryEmbedding, Head(store).embedding)]>>
         \o ScoreDocs(Tail(store), queryEmbedding, conversationId)

\* retrieveRelevantContext, after the scan: a throw of cosineSimilarity is
\* caught like every other error
RankResults(results, limit) ==
    IF \E i \in 1..Len(results) : SimThrows(results[i].similarity)
    THEN [thrown |-> FALSE, results |-> <<>>]
    ELSE [thrown |-> FALSE, results |-> Slice0(SortBySimilarity(results), limit)]

\* mutant: the catch rethrows, as the one of searchDocuments does
RetrieveInitialized_Rethrow(v0, queryEmbedding, limit, conversationId) ==
    IF ~v0.isInitialized THEN [thrown |-> FALSE, results |-> <<>>]
    ELSE IF ~queryEmbedding.ok THEN [thrown |-> TRUE, results |-> <<>>]
    ELSE RankResults(ScoreDocs(v0.vectorStore, queryEmbedding.values, conversationId),
                     limit)

\* retrieveRelevantContext, after initialize: a falsy conversationId (NoConv)
\* does not filter
RetrieveInitialized(v0, queryEmbedding, limit, conversationId) ==
    IF ~v0.isInitialized THEN [thrown |-> FALSE, results |-> <<>>]
    ELSE IF ~queryEmbedding.ok THEN [thrown |-> FALSE, results |-> <<>>]
    ELSE RankResults(ScoreDocs(v0.vectorStore, queryEmbedding.values, conversationId),
                     limit)

\* retrieveRelevantContext: [thrown, results]
retrieveRelevantContext(vm, query, limit, conversationId, providerOk) ==
    RetrieveInitialized(ensureInitialized(vm), generateEmbedding(query, providerOk),
                        limit, conversationId)

\* mutant: the conversation filter is left out
DocsOf_Unfiltered(store, conversationId) ==
    [i \in 1..Len(store) |->
        [content |-> store[i].document, type |-> store[i].type,
         conversationId |-> store[i].conversationId,
         timestamp |-> store[i].timestamp]]

\* the records of one conversation, as getConversationHistory collects them
RECURSIVE DocsOf(_, _)
DocsOf(store, conversationId) ==
    IF store = <<>> THEN <<>>
    ELSE IF Head(store).conversationId = conversationId
    THEN <<[content |-> Head(store).document, type |-> Head(store).type,
            conversationId |-> Head(store).conversationId,
            timestamp |-> Head(store).timestamp]>>
         \o DocsOf(Tail(store), conversationId)
    ELSE DocsOf(Tail(store), conversationId)

\* getConversationHistory, after initialize
HistoryInitialized(v0, conversationId, limit) ==
    IF ~v0.isInitialized THEN <<>>
    ELSE Slice0(SortByTimestamp(DocsOf(v0.vectorStore, conversationId)), limit * 2)

getConversationHistory(vm, conversationId, limit) ==
    HistoryInitialized(ensureInitialized(vm), conversationId, limit)

\* deleteConversation: this.collection is never assigned, so
\* this.collection.delete(...) throws a TypeError, which the catch rethrows
deleteConversation(vm, conversationId) ==
    [thrown |-> TRUE, vm |-> ensureInitialized(vm)]

\* ---------------------------------------------- DSPyIntegrationService
\* what the enhanced service does during one request
HealthAnswers == {"healthy", "unhealthy", "unreachable"}
ChatAnswers   == {"ok", "timeout", "non2xx", "malformed"}
DspyEnvs ==
    {[health |-> "unreachable", chat |-> "timeout", echo |-> TRUE]}
    \cup [health : {"healthy"}, chat : ChatAnswers, echo : {TRUE}]

\* the embedding provider during one request: query, user turn, AI turn
EmbedEnvs ==
    {[q |-> TRUE, u |-> TRUE, a |-> TRUE], [q |-> FALSE, u |-> FALSE, a |-> FALSE],
     [q |-> TRUE, u |-> TRUE, a |-> FALSE]}

NoDspy == [health |-> "unreachable", chat |-> "timeout", echo |-> TRUE]
AllUp  == [q |-> TRUE, u |-> TRUE, a |-> TRUE]

\* mutant: a flag found healthy before is trusted without asking again
checkHealth_Cached(health) == isHealthy \/ health = "healthy"

\* checkHealth, reached only when isEnabled: the new isHealthy
checkHealth(health) == health = "healthy"

\* response.data.conversation_id of the enhanced service
DspyConversationId(conversationId, echo) ==
    IF echo THEN conversationId ELSE "dspy_" \o conversationId

\* fallbackToGemini ? return null : throw
OnDspyFailure == IF fallbackToGemini THEN "null" ELSE "throw"

EnhancedResult(kind, vm, health, posted, response, conversationId, memoryContext) ==
    [kind |-> kind, vm |-> vm, health |-> health, posted |-> posted,
     response |-> response, conversationId |-> conversationId,
     memoryContext |-> memoryContext]

\* generateEnhancedResponse, the POST to /chat and what follows it: a 2xx
\* answer is stored (a throw of storeConversation would be caught and logged)
\* and returned; everything else goes to the catch
EnhancedChat(vm1, health1, userMessage, conversationId, now, dspy, embed, memoryContext) ==
    IF dspy.chat = "ok"
    THEN EnhancedResult("enhanced",
                        storeConversation(vm1,
                                          IF conversationId # NoConv THEN conversationId
                                          ELSE DspyConversationId(conversationId, dspy.echo),
                                          userMessage, DspyText, now, embed.u, embed.a).vm,
                        health1, TRUE, DspyText,
                        DspyConversationId(conversationId, dspy.echo), memoryContext)
    ELSE EnhancedResult(OnDspyFailure, vm1, health1, TRUE, <<>>, NoConv, memoryContext)

\* generateEnhancedResponse, the memory context of a recall query
EnhancedRequest(vm, health1, userMessage, conversationId, now, dspy, embed) ==
    EnhancedChat(IF isMemoryQuery(userMessage) THEN ensureInitialized(vm) ELSE vm,
                 health1, userMessage, conversationId, now, dspy, embed,
                 IF isMemoryQuery(userMessage)
                 THEN retrieveRelevantContext(vm, userMessage, 10, "search_all",
                                              embed.q).results
                 ELSE <<>>)

\* generateEnhancedResponse: kind is "enhanced", "null" (caller falls back)
\* or "throw"
generateEnhancedResponse(vm, health0, userMessage, conversationId, now, dspy, embed) ==
    IF ~isEnabled
    THEN EnhancedResult(OnDspyFailure, vm, health0, FALSE, <<>>, NoConv, <<>>)
    ELSE IF ~checkHealth(dspy.health)
    THEN EnhancedResult(OnDspyFailure, vm,
                        [isHealthy |-> FALSE, lastHealthCheck |-> now],
                        FALSE, <<>>, NoConv, <<>>)
    ELSE EnhancedRequest(vm, [isHealthy |-> TRUE, lastHealthCheck |-> now],
                         userMessage, conversationId, now, dspy, embed)

\* --------------------------------------------------------- GeminiService
HasConversation(convs, conversationId) ==
    \E c \in convs : c.conversationId = conversationId

\* mutant: a database error is thrown on to the caller
updateConversationMetadata_Throws(convs, conversationId, now, dbOk) ==
    [thrown |-> ~dbOk, convs |-> convs]

\* updateConversationMetadata: [thrown, convs]; every error of the database
\* (dbOk false) is caught and logged
updateConversationMetadata(convs, conversationId, now, dbOk) ==
    IF ~dbOk THEN [thrown |-> FALSE, convs |-> convs]
    ELSE IF ~HasConversation(convs, conversationId)
    THEN [thrown |-> FALSE,
          convs |-> convs \cup {[conversationId |-> conversationId,
                                 messageCount |-> 1, lastActivity |-> now]}]
    ELSE [thrown |-> FALSE,
          convs |-> {IF c.conversationId = conversationId
                     THEN [c EXCEPT !.messageCount = @ + 1, !.lastActivity = now]
                     ELSE c : c \in convs}]

\* conv_${Date.now()}
NewConversationId(now) == "conv_" \o ToString(now)

\* context.conversationId || `conv_${Date.now()}`
ResolveConversationId(ctxConv, now) ==
    IF ctxConv # NoConv THEN ctxConv ELSE NewConversationId(now)

\* mutant: without an enhanced answer the request fails
AfterEnhanced_NoFallback(kind) == IF kind = "enhanced" THEN "return" ELSE "throw"

\* after the enhanced attempt: an enhanced answer is returned; a null answer
\* and a caught error both go on to the direct LLM
AfterEnhanced(kind) == IF kind = "enhanced" THEN "return" ELSE "fallback"

Reply == [thrown |-> FALSE, response |-> <<>>, conversationId |-> NoConv,
          dspyKind |-> "none", llmCalled |-> FALSE,
          retrieved |-> FALSE, recall |-> FALSE, relevantContext |-> <<>>,
          conversationHistory |-> <<>>]

Result(reply, vm, health, convs) ==
    [reply |-> reply, vm |-> vm, health |-> health, convs |-> convs]

\* generateResponse, the end: the turn has been stored (a throw of
\* storeConversation is caught and logged) and the metadata updated
DirectReturn(sofar, stored, updated, health, conversationId) ==
    IF updated.thrown
    THEN Result([sofar EXCEPT !.thrown = TRUE], stored.vm, health, updated.convs)
    ELSE Result([sofar EXCEPT !.response = LlmText, !.conversationId = conversationId],
                stored.vm, health, updated.convs)

\* generateResponse, this.model.generateContent(prompt)
DirectGenerate(vm1, health, convs, userMessage, conversationId, now, embed, llmOk, dbOk, sofar) ==
    IF ~llmOk THEN Result([sofar EXCEPT !.thrown = TRUE], vm1, health, convs)
    ELSE DirectReturn(sofar,
                      storeConversation(vm1, conversationId, userMessage, LlmText, now,
                                        embed.u, embed.a),
                      updateConversationMetadata(convs, conversationId, now, dbOk),
                      health, conversationId)

\* generateResponse, the history: a throw of the retrieval skips the history
\* call and both stay []
DirectHistory(vm1, health, convs, userMessage, conversationId, now, embed, llmOk, dbOk, kind, relevantContext) ==
    DirectGenerate(vm1, health, convs, userMessage, conversationId, now, embed, llmOk,
                   dbOk,
                   [Reply EXCEPT
                      !.dspyKind = kind, !.llmCalled = TRUE, !.retrieved = TRUE,
                      !.recall = isMemoryQuery(userMessage),
                      !.relevantContext = IF relevantContext.thrown THEN <<>>
                                          ELSE relevantContext.results,
                      !.conversationHistory =
                          IF relevantContext.thrown THEN <<>>
                          ELSE getConversationHistory(vm1, conversationId, 5)])

\* generateResponse, the retrieval: a recall query asks for 10 results of
\* conversation 'search_all', any other for 5 of its own conversation
DirectRetrieve(vm1, health, convs, userMessage, conversationId, now, embed, llmOk, dbOk, kind) ==
    DirectHistory(vm1, health, convs, userMessage, conversationId, now, embed, llmOk,
                  dbOk, kind,
                  retrieveRelevantContext(vm1, userMessage,
                                          IF isMemoryQuery(userMessage) THEN 10 ELSE 5,
                                          IF isMemoryQuery(userMessage) THEN "search_all"
                                          ELSE conversationId,
                                          embed.q))

\* generateResponse, after the enhanced attempt
DirectOrEnhanced(dspyResponse, convs, userMessage, conversationId, now, embed, llmOk, dbOk) ==
    IF AfterEnhanced(dspyResponse.kind) = "return"
    THEN Result([Reply EXCEPT !.response = dspyResponse.response,
                              !.conversationId = dspyResponse.conversationId,
                              !.dspyKind = "enhanced"],
                dspyResponse.vm, dspyResponse.health, convs)
    ELSE IF AfterEnhanced(dspyResponse.kind) = "throw"
    THEN Result([Reply EXCEPT !.thrown = TRUE, !.dspyKind = dspyResponse.kind],
                dspyResponse.vm, dspyResponse.health, convs)
    ELSE DirectRetrieve(ensureInitialized(dspyResponse.vm), dspyResponse.health, convs,
                        userMessage, conversationId, now, embed, llmOk, dbOk,
                        dspyResponse.kind)

\* GeminiService.generateResponse(userMessage, {conversationId: ctxConv})
generateResponse(vm, health0, convs, userMessage, ctxConv, now, dspy, embed, llmOk, dbOk) ==
    DirectOrEnhanced(generateEnhancedResponse(vm, health0, userMessage,
                                              ResolveConversationId(ctxConv, now),
                                              now, dspy, embed),
                     convs, userMessage, ResolveConversationId(ctxConv, now), now,
                     embed, llmOk, dbOk)

\* generateResponseWithFiles, the end: nothing here is caught
FilesReturn(sofar, stored, updated, health, convs, conversationId) ==
    IF stored.thrown
    THEN Result([sofar EXCEPT !.thrown = TRUE], stored.vm, health, convs)
    ELSE IF updated.thrown
    THEN Result([sofar EXCEPT !.thrown = TRUE], stored.vm, health, updated.convs)
    ELSE Result([sofar EXCEPT !.response = LlmText, !.conversationId = conversationId],
                stored.vm, health, updated.convs)

\* generateResponseWithFiles, the retrieval, the history and generateContent
FilesGenerate(vm1, health, convs, userMessage, conversationId, now, embed, llmOk, dbOk, relevantContext) ==
    IF relevantContext.thrown
    THEN Result([Reply EXCEPT !.thrown = TRUE, !.retrieved = TRUE], vm1, health, convs)
    ELSE IF ~llmOk
    THEN Result([Reply EXCEPT !.thrown = TRUE, !.llmCalled = TRUE, !.retrieved = TRUE,
                              !.relevantContext = relevantContext.results,
                              !.conversationHistory =
                                  getConversationHistory(vm1, conversationId, 5)],
                vm1, health, convs)
    ELSE FilesReturn([Reply EXCEPT !.llmCalled = TRUE, !.retrieved = TRUE,
                                   !.relevantContext = relevantContext.results,
                                   !.conversationHistory =
                                       getConversationHistory(vm1, conversationId, 5)],
                     storeConversation(vm1, conversationId, userMessage, LlmText, now,
                                       embed.u, embed.a),
                     updateConversationMetadata(convs, conversationId, now, dbOk),
                     health, convs, conversationId)

FilesRetrieve(vm1, health, convs, userMessage, conversationId, now, embed, llmOk, dbOk) ==
    FilesGenerate(vm1, health, convs, userMessage, conversationId, now, embed, llmOk,
                  dbOk,
                  retrieveRelevantContext(vm1, userMessage, 5, conversationId, embed.q))

\* GeminiService.generateResponseWithFiles(userMessage, files, {conversationId: ctxConv})
generateResponseWithFiles(vm, health0, convs, userMessage, ctxConv, now, embed, llmOk, dbOk) ==
    FilesRetrieve(ensureInitialized(vm), health0, convs, userMessage,
                  ResolveConversationId(ctxConv, now), now, embed, llmOk, dbOk)

\* ------------------------------------------------------ HTTP handlers
\* a mime type is <<type, subtype>>
Png == <<"image", "png">>
Pdf == <<"application", "pdf">>
Zip == <<"application", "zip">>
Txt == <<"text", "plain">>
FileLists == {<<Png, Zip>>, <<Pdf>>}

\* mutant: an attachment of an unknown type is taken as text
FileType_AllKept(mimetype) ==
    IF mimetype[1] = "image" THEN "image"
    ELSE IF mimetype = Pdf THEN "document"
    ELSE "text"

\* the classification of one attachment; "" when it is dropped
FileType(mimetype) ==
    IF mimetype[1] = "image" THEN "image"
    ELSE IF mimetype = Pdf THEN "document"
    ELSE IF mimetype \in {Txt, <<"text", "markdown">>} THEN "text"
    ELSE ""

RECURSIVE ProcessedFiles(_)
ProcessedFiles(files) ==
    IF files = <<>> THEN <<>>
    ELSE IF FileType(Head(files)) = "" THEN ProcessedFiles(Tail(files))
    ELSE <<FileType(Head(files))>> \o ProcessedFiles(Tail(files))

OutNone ==
    [op |-> "none", status |-> 0, message |-> <<>>, scope |-> NoConv, limit |-> 0,
     results |-> <<>>, reply |-> Reply, files |-> <<>>, processedFiles |-> <<>>,
     filesProcessed |-> 0, dspy |-> NoDspy, embed |-> AllUp, llmOk |-> TRUE,
     dbOk |-> TRUE, before |-> 0]

\* the fields of DSPyIntegrationService an operation reads and writes
Health == [isHealthy |-> isHealthy, lastHealthCheck |-> lastHealthCheck]

\* the request of the chat endpoint as `out` records it
ChatOut(message, conversationId, files, dspy, embed, llmOk, dbOk) ==
    [OutNone EXCEPT !.op = "chat", !.message = message, !.scope = conversationId,
                    !.files = files, !.dspy = dspy, !.embed = embed,
                    !.llmOk = llmOk, !.dbOk = dbOk, !.before = Len(vectorStore)]

\* app.post('/api/chat'), the response: res.json or the catch's 500
ChatResponse(o, files, result) ==
    IF result.reply.thrown
    THEN [out |-> [o EXCEPT !.status = 500, !.reply = result.reply,
                            !.processedFiles = ProcessedFiles(files)],
          vm |-> result.vm, health |-> result.health, convs |-> result.convs]
    ELSE [out |-> [o EXCEPT !.status = 200, !.reply = result.reply,
                            !.processedFiles = ProcessedFiles(files),
                            !.filesProcessed = Len(files)],
          vm |-> result.vm, health |-> result.health, convs |-> result.convs]

\* mutant: the message is not validated
chatEndpoint_Unvalidated(message, conversationId, files, now, dspy, embed, llmOk, dbOk) ==
    ChatResponse(ChatOut(message, conversationId, files, dspy, embed, llmOk, dbOk),
                 files,
                 IF files # <<>>
                 THEN generateResponseWithFiles(Memory, Health, conversations, message,
                                                conversationId, now, embed, llmOk, dbOk)
                 ELSE generateResponse(Memory, Health, conversations, message,
                                       conversationId, now, dspy, embed, llmOk, dbOk))

\* app.post('/api/chat')
chatEndpoint(message, conversationId, files, now, dspy, embed, llmOk, dbOk) ==
    IF message = NoMessage
    THEN [out |-> [ChatOut(message, conversationId, files, dspy, embed, llmOk, dbOk)
                      EXCEPT !.status = 400],
          vm |-> Memory, health |-> Health, convs |-> conversations]
    ELSE ChatResponse(ChatOut(message, conversationId, files, dspy, embed, llmOk, dbOk),
                      files,
                      IF files # <<>>
                      THEN generateResponseWithFiles(Memory, Health, conversations,
                                                     message, conversationId, now, embed,
                                                     llmOk, dbOk)
                      ELSE generateResponse(Memory, Health, conversations, message,
                                            conversationId, now, dspy, embed, llmOk,
                                            dbOk))

Apply(r) ==
    /\ vectorStore' = r.vm.vectorStore
    /\ idCounter' = r.vm.idCounter
    /\ isInitialized' = r.vm.isInitialized
    /\ isHealthy' = r.health.isHealthy
    /\ lastHealthCheck' = r.health.lastHealthCheck
    /\ conversations' = r.convs
    /\ out' = r.out
    /\ UNCHANGED <<page, posts, admin, loaded,
                   apiKey, isEnabled, fallbackToGemini, clock, calls, fileDocs>>

\* the store stays within maxStore records and a messageCount within maxCount
ApplyWithin(r, maxStore, maxCount) ==
    /\ Len(r.vm.vectorStore) <= maxStore
    /\ \A c \in r.convs : c.messageCount <= maxCount
    /\ Apply(r)

\* no request is being handled
Idle == out.op = "none"

\* one request to the chat endpoint, its inputs and what the remote services
\* do drawn from the given sets
Chat(messages, convIds, fileLists, dspyEnvs, embedEnvs, llmOks, dbOks, maxStore, maxCount) ==
    /\ Idle
    /\ \E message \in messages, conversationId \in convIds, files \in fileLists,
          dspy \in dspyEnvs, embed \in embedEnvs, llmOk \in llmOks, dbOk \in dbOks :
          ApplyWithin(chatEndpoint(message, conversationId, files, clock, dspy, embed,
                                   llmOk, dbOk),
                      maxStore, maxCount)

\* a chat request without a message
ChatNoMessage ==
    Chat({NoMessage}, ChatConvIds, FileLists \cup {<<>>}, {NoDspy}, {AllUp}, {TRUE},
         {TRUE}, MaxStore, MaxMessageCount)

\* a chat request without attachments
ChatText ==
    Chat(Messages, ChatConvIds, {<<>>}, DspyEnvs, EmbedEnvs, BOOLEAN, BOOLEAN, MaxStore,
         MaxMessageCount)

\* a chat request with attachments
ChatFiles ==
    Chat(Messages, ChatConvIds, FileLists, {NoDspy}, EmbedEnvs, BOOLEAN, BOOLEAN,
         MaxStore, MaxMessageCount)

ScopeIds == ConvIds \cup {NoConv, "c9"}

\* the request of a memory route as `out` records it
RouteOut(op, query, conversationId, limit, providerOk, dbOk) ==
    [OutNone EXCEPT !.op = op, !.message = query, !.scope = conversationId,
                    !.limit = limit, !.embed = [AllUp EXCEPT !.q = providerOk],
                    !.dbOk = dbOk, !.before = Len(vectorStore)]

RouteResult(o, vm) ==
    [out |-> o, vm |-> vm, health |-> Health, convs |-> conversations]

\* router.post('/search'), the response
SearchResponse(o, vm, found) ==
    IF found.thrown THEN RouteResult([o EXCEPT !.status = 500], vm)
    ELSE RouteResult([o EXCEPT !.status = 200, !.results = found.results], vm)

\* router.post('/search')
searchRoute(query, conversationId, limit, providerOk) ==
    IF query = NoMessage
    THEN RouteResult([RouteOut("search", query, conversationId, limit, providerOk, TRUE)
                         EXCEPT !.status = 400],
                     Memory)
    ELSE SearchResponse(RouteOut("search", query, conversationId, limit, providerOk, TRUE),
                        ensureInitialized(Memory),
                        retrieveRelevantContext(Memory, query, limit, conversationId,
                                                providerOk))

Search ==
    /\ Idle
    /\ \E query \in Messages \cup {NoMessage}, conversationId \in ScopeIds,
       limit \in (-1)..MaxLimit, providerOk \in BOOLEAN :
        Apply(searchRoute(query, conversationId, limit, providerOk))

\* router.get('/conversations/:conversationId')
historyRoute(conversationId, limit, dbOk) ==
    IF ~dbOk
    THEN RouteResult([RouteOut("history", <<>>, conversationId, limit, TRUE, dbOk)
                         EXCEPT !.status = 500],
                     Memory)
    ELSE RouteResult([RouteOut("history", <<>>, conversationId, limit, TRUE, dbOk)
                         EXCEPT !.status = 200,
                                !.results = getConversationHistory(Memory, conversationId,
                                                                   limit)],
                     ensureInitialized(Memory))

HistoryOf(convIds, limits, dbOks) ==
    /\ Idle
    /\ \E conversationId \in convIds, limit \in limits, dbOk \in dbOks :
          Apply(historyRoute(conversationId, limit, dbOk))

History == HistoryOf(ScopeIds \ {NoConv}, 0..MaxLimit, BOOLEAN)

\* router.delete('/conversations/:conversationId'), the response
DeleteResponse(o, conversationId, dbOk, deleted) ==
    IF deleted.thrown \/ ~dbOk
    THEN RouteResult([o EXCEPT !.status = 500], deleted.vm)
    ELSE [RouteResult([o EXCEPT !.status = 200], deleted.vm)
             EXCEPT !.convs = {c \in conversations : c.conversationId # conversationId}]

\* router.delete('/conversations/:conversationId')
deleteRoute(conversationId, dbOk) ==
    DeleteResponse(RouteOut("delete", <<>>, conversationId, 0, TRUE, dbOk),
                   conversationId, dbOk, deleteConversation(Memory, conversationId))

Delete ==
    /\ Idle
    /\ \E conversationId \in ScopeIds \ {NoConv}, dbOk \in BOOLEAN :
        Apply(deleteRoute(conversationId, dbOk))

\* res.json(...): the response is sent and the handler ends
Respond ==
    /\ ~Idle
    /\ out' = OutNone
    /\ UNCHANGED <<page, posts, admin, loaded,
                   apiKey, isEnabled, fallbackToGemini, vectorStore, idCounter,
                   isInitialized, isHealthy, lastHealthCheck, conversations, clock,
                   calls, fileDocs>>

\* time passes
Tick ==
    /\ Idle
    /\ clock < MaxClock
    /\ clock' = clock + 1
    /\ UNCHANGED <<page, posts, admin, loaded,
                   apiKey, isEnabled, fallbackToGemini, vectorStore, idCounter,
                   isInitialized, isHealthy, lastHealthCheck, conversations, calls,
                   fileDocs, out>>

\* the ids uuidv4 gives to uploaded files
FileIds == {"f1", "f2"}

\* no File document has been created
NoFile == [processingStatus |-> "none", processingError |-> ""]
NoFileDocs == [f \in FileIds |-> NoFile]

\* the greeting ChatPage starts with
Greeting == [type |-> "ai", content |-> <<"hello">>, files |-> <<>>,
             isError |-> FALSE, retryData |-> <<>>]

\* useState(...) of ChatPage, as first rendered
InitialPage == [messages |-> <<Greeting>>, inputMessage |-> NoMessage,
                isLoading |-> FALSE, conversationId |-> NoConv,
                selectedFiles |-> <<>>, showFileUpload |-> FALSE,
                connectionStatus |-> "connected"]

\* a Date that is not set
NoDate == 0

\* an Admin document with the schema's defaults
NewAdmin == [loginAttempts |-> 0, lockUntil |-> NoDate, lastLogin |-> NoDate]

Init ==
    /\ apiKey \in BOOLEAN
    /\ isEnabled \in BOOLEAN
    /\ fallbackToGemini \in BOOLEAN
    /\ vectorStore = <<>>
    /\ idCounter = 0
    /\ isInitialized = FALSE
    /\ isHealthy = FALSE
    /\ lastHealthCheck = 0
    /\ conversations = {}
    /\ clock = 1
    /\ calls = <<>>
    /\ fileDocs = NoFileDocs
    /\ page = InitialPage
    /\ posts = <<>>
    /\ admin = NewAdmin
    /\ loaded = <<>>
    /\ out = OutNone

\* the chat endpoint and the services behind it
Next == ChatNoMessage \/ ChatText \/ ChatFiles \/ Respond

Spec == Init /\ [][Next]_vars

\* the memory service behind the chat endpoint and the memory routes, with the
\* enhanced service switched off
InitMemory ==
    /\ Init
    /\ ~isEnabled
    /\ fallbackToGemini

MemChat ==
    Chat(Messages, ConvIds, {<<>>, <<Pdf>>}, {NoDspy}, EmbedEnvs, {TRUE}, {TRUE},
         MaxMemStore, MaxMessageCount)

NextMemory == MemChat \/ Search \/ History \/ Delete \/ Respond \/ Tick

SpecMemory == InitMemory /\ [][NextMemory]_vars

\* one conversation that grows turn by turn, and its history read back with
\* the default limit of getConversationHistory
DefaultHistoryLimit == 10

TurnC1 ==
    Chat({PlainMsg}, {"c1"}, {<<>>}, {NoDspy}, {AllUp}, {TRUE}, {TRUE},
         2 * MaxRoundTripTurns, MaxRoundTripTurns)

HistoryC1 == HistoryOf({"c1"}, {DefaultHistoryLimit}, {TRUE})

NextRoundTrip == TurnC1 \/ HistoryC1 \/ Respond \/ Tick

InitRoundTrip == InitMemory /\ apiKey

SpecRoundTrip == InitRoundTrip /\ [][NextRoundTrip]_vars

\* ================================================================ claims
\* the store as the last operation found it (operations only append)
PreStore == SubSeq(vectorStore, 1, out.before)
PreMemory == [vectorStore |-> PreStore, idCounter |-> 0, isInitialized |-> TRUE]

ChatDone == out.op = "chat" /\ out.message # NoMessage

\* the enhanced service was tried and did not produce an answer
EnhancedFailed ==
    /\ ChatDone /\ out.files = <<>> /\ isEnabled
    /\ (out.dspy.health # "healthy" \/ out.dspy.chat # "ok")

RECURSIVE Count(_, _)
Count(seq, x) ==
    IF seq = <<>> THEN 0
    ELSE (IF Head(seq) = x THEN 1 ELSE 0) + Count(Tail(seq), x)

\* the two sequences hold the same elements, each as many times
SameElements(seqA, seqB) ==
    /\ Len(seqA) = Len(seqB)
    /\ \A i \in 1..Len(seqA) : Count(seqA, seqA[i]) = Count(seqB, seqA[i])

Unscored(results) ==
    [i \in 1..Len(results) |->
        [content |-> results[i].content, type |-> results[i].type,
         conversationId |-> results[i].conversationId,
         timestamp |-> results[i].timestamp]]

\* what a search over every conversation finds for the message of the last
\* chat request
RecallOverAll ==
    retrieveRelevantContext(PreMemory, out.message, 10, NoConv, TRUE).results

\* the last operation was a recall query, answered by the direct path with a
\* working embedding provider, issued from a conversation that has records
\* while the best match of the whole store lies in another conversation
RecallAcrossConversations ==
    /\ ChatDone /\ out.scope # NoConv /\ out.reply.retrieved
    /\ isMemoryQuery(out.message) /\ out.embed.q /\ apiKey
    /\ DocsOf(PreStore, out.scope) # <<>>
    /\ RecallOverAll # <<>>
    /\ RecallOverAll[1].conversationId # out.scope

\* C1: a recall query ("remember ...") issued from within one conversation
\* searches the records of all conversations, so when the best match of the
\* whole store belongs to another conversation it is the top result.
C1_RecallWidensScope ==
    RecallAcrossConversations =>
        /\ out.reply.relevantContext # <<>>
        /\ out.reply.relevantContext[1] = RecallOverAll[1]

\* C2: when the enhanced attempt fails or times out, fallback is enabled and
\* the direct LLM call succeeds, the caller gets the direct LLM's text and a
\* conversation id, and no error.
C2_FallbackAnswers ==
    (EnhancedFailed /\ fallbackToGemini /\ out.llmOk) =>
        /\ out.status = 200
        /\ ~out.reply.thrown
        /\ out.reply.response = LlmText
        /\ out.reply.conversationId # NoConv
        /\ out.reply.conversationId = ResolveConversationId(out.scope, clock)

C2_Witness ==
    /\ EnhancedFailed /\ fallbackToGemini /\ out.llmOk
    /\ out.dspy.health = "healthy" /\ out.dspy.chat = "timeout"
    /\ out.scope = NoConv
    /\ out.status = 200

\* C3: when the enhanced attempt fails and fallback is disabled, the error
\* reaches the caller: the request ends in an error and the direct LLM is
\* not called.
C3_NoFallbackPropagates ==
    (EnhancedFailed /\ ~fallbackToGemini) =>
        /\ out.status = 500
        /\ ~out.reply.llmCalled

\* C4: a similarity search with limit >= 0 returns at most limit results, in
\* non-increasing order of similarity.
C4_LimitedAndSorted ==
    (out.op = "search" /\ out.status = 200 /\ out.limit >= 0) =>
        /\ Len(out.results) <= out.limit
        /\ \A i, j \in 1..Len(out.results) :
              i < j => ~SimLess(out.results[i].similarity, out.results[j].similarity)

\* the limit cut results off, and the best one was not the first stored
C4_Witness ==
    /\ out.op = "search" /\ out.status = 200
    /\ out.limit = 2 /\ Len(out.results) = 2
    /\ Len(ScoreDocs(vectorStore, Embedding(out.message), out.scope)) > 2
    /\ SimLess(out.results[2].similarity, out.results[1].similarity)
    /\ out.results[1].content # vectorStore[1].document

\* C5: when the embedding provider fails or the embedding model is not
\* available, the retrieval returns an empty list and does not throw: a
\* search answers 200 with no results, and a chat request goes on to
\* generation with an empty context.
C5_RetrievalNeverThrows ==
    /\ (out.op = "search" /\ out.message # NoMessage /\ (~out.embed.q \/ ~apiKey)) =>
          (out.status = 200 /\ out.results = <<>>)
    /\ (ChatDone /\ out.reply.retrieved /\ (~out.embed.q \/ ~apiKey)) =>
          /\ out.reply.relevantContext = <<>>
          /\ out.reply.llmCalled
          /\ out.status = 200

\* the provider failed although the store held records in the query's scope
C5_Witness ==
    /\ apiKey /\ ~out.embed.q /\ out.scope \in ConvIds
    /\ DocsOf(PreStore, out.scope) # <<>>
    /\ \/ out.op = "search" /\ out.message # NoMessage /\ out.limit > 0
       \/ ChatDone /\ out.reply.retrieved /\ out.files # <<>>

\* C6: after a conversation is deleted through the memory endpoint, none of
\* its records is left in the store and its Conversation document is gone;
\* deleting a conversation without records is not an error.
C6_DeleteRemoves ==
    (out.op = "delete" /\ out.dbOk) =>
        /\ out.status = 200
        /\ DocsOf(vectorStore, out.scope) = <<>>
        /\ ~HasConversation(conversations, out.scope)

\* the timestamps of the last n records of the conversation, oldest first
LatestTimestamps(conversationId, n) ==
    LET all == SortByTimestamp(DocsOf(vectorStore, conversationId))
    IN  [i \in 1..n |-> all[Len(all) - n + i].timestamp]

\* C7: the history of a conversation is its most recent turns, oldest first:
\* when not every record is returned, the returned ones are the latest.
C7_HistoryIsMostRecent ==
    (out.op = "history" /\ out.status = 200) =>
        [i \in 1..Len(out.results) |-> out.results[i].timestamp]
            = LatestTimestamps(out.scope, Len(out.results))

\* C9: a query scoped to a conversation id returns only records of that
\* conversation: nothing for an id without records, and all N records of the
\* conversation when the limit is at least N.
C9_ScopedQueries ==
    LET mine == DocsOf(vectorStore, out.scope)
    IN  /\ (out.op = "history" /\ out.status = 200) =>
              /\ \A i \in 1..Len(out.results) : out.results[i].conversationId = out.scope
              /\ out.limit >= Len(mine) => SameElements(out.results, mine)
        /\ (out.op = "search" /\ out.status = 200 /\ out.scope # NoConv) =>
              /\ \A i \in 1..Len(out.results) : out.results[i].conversationId = out.scope
              /\ (out.limit >= Len(mine) /\ out.embed.q /\ apiKey) =>
                    SameElements(Unscored(out.results), mine)

\* both conversations hold records and every record of one came back
C9_Witness ==
    /\ out.op \in {"history", "search"} /\ out.status = 200
    /\ out.scope \in ConvIds
    /\ Len(out.results) >= 2
    /\ out.limit >= Len(out.results)
    /\ Len(out.results) = Len(DocsOf(vectorStore, out.scope))
    /\ \E i \in 1..Len(vectorStore) : vectorStore[i].conversationId # out.scope

\* the turn stored last: its user record and its AI record
LastTurnStored ==
    /\ Len(vectorStore) >= 2
    /\ vectorStore[Len(vectorStore) - 1].type = "user_message"
    /\ vectorStore[Len(vectorStore)].type = "ai_response"
    /\ vectorStore[Len(vectorStore) - 1].conversationId = out.scope
    /\ vectorStore[Len(vectorStore)].conversationId = out.scope

\* C8: after a turn has been stored for a conversation, its history read
\* with limit 10 holds both records of the turn, the user message before the
\* AI response.
C8_RoundTrip ==
    (out.op = "history" /\ out.status = 200 /\ out.limit = DefaultHistoryLimit
        /\ LastTurnStored) =>
        LET mine == DocsOf(vectorStore, out.scope)
        IN  \E i, j \in 1..Len(out.results) :
                /\ i < j
                /\ out.results[i] = mine[Len(mine) - 1]
                /\ out.results[j] = mine[Len(mine)]

\* generation produced an answer and persisting the turn failed
PersistFailedAfterAnswer ==
    /\ ChatDone
    /\ \/ out.reply.dspyKind = "enhanced"
       \/ out.reply.llmCalled /\ out.llmOk
    /\ (~out.embed.u \/ ~out.embed.a \/ ~out.dbOk \/ ~apiKey)

\* C10: once generation has produced an answer, a failure to persist the
\* turn (embedding, memory store, Conversation document) does not fail the
\* request, with or without attachments.
C10_PersistFailureNotFatal ==
    PersistFailedAfterAnswer =>
        /\ out.status = 200
        /\ out.reply.response =
              (IF out.reply.dspyKind = "enhanced" THEN DspyText ELSE LlmText)
        /\ out.reply.conversationId = ResolveConversationId(out.scope, clock)

\* the database and the embedding of the AI turn failed, on a request with
\* attachments
C10_Witness ==
    /\ PersistFailedAfterAnswer
    /\ out.files # <<>> /\ ~out.dbOk /\ ~out.embed.a /\ out.embed.u /\ apiKey
    /\ out.status = 200
    /\ Len(vectorStore) = out.before + 1

\* the step is a chat request that returned a generated answer while the
\* database worked
AnsweredTurn ==
    /\ out'.op = "chat" /\ out'.status = 200 /\ out'.dbOk
    /\ out'.reply.conversationId # NoConv

\* the Conversation document of the answered turn, before and after the step
TurnRecorded ==
    IF HasConversation(conversations, out'.reply.conversationId)
    THEN \E c \in conversations :
            /\ c.conversationId = out'.reply.conversationId
            /\ [c EXCEPT !.messageCount = @ + 1, !.lastActivity = clock]
                  \in conversations'
    ELSE \E c \in conversations' :
            /\ c.conversationId = out'.reply.conversationId
            /\ c.messageCount = 1

\* C11: every chat turn that returns a generated answer, from the enhanced
\* service or from the direct LLM, creates the Conversation document on the
\* first turn of its conversation id and otherwise increments messageCount
\* and refreshes lastActivity, when the database works.
C11_EveryTurnCounted == [][AnsweredTurn => TurnRecorded]_vars

\* the step is a chat request without a message
EmptyMessageRequest == out'.op = "chat" /\ out'.message = NoMessage

\* C12: a chat request with a missing or empty message is answered 400 at
\* once: no attachment is classified, nothing is retrieved, generated or
\* persisted, and the memory store and the Conversation documents stay as
\* they were.
C12_EmptyMessageRejected ==
    [][EmptyMessageRequest =>
          /\ out'.status = 400
          /\ out'.reply = Reply
          /\ out'.processedFiles = <<>>
          /\ out'.filesProcessed = 0
          /\ UNCHANGED <<vectorStore, idCounter, isInitialized, conversations,
                         isHealthy, lastHealthCheck>>]_vars

\* an empty message with attachments, sent when the store and the
\* Conversation collection hold data
C12_Witness ==
    /\ out.op = "chat" /\ out.message = NoMessage /\ out.status = 400
    /\ out.files # <<>>
    /\ vectorStore # <<>> /\ conversations # {}

\* ------------------------------------------------ attachments of a chat
MaxFiles == 2   \* attachments of one chat request (multer stops at 3)

Md == <<"text", "markdown">>
Jpeg == <<"image", "jpeg">>
MimeTypes == {Png, Jpeg, Pdf, Zip, Txt, Md}
AttachmentLists == UNION {[1..n -> MimeTypes] : n \in 1..MaxFiles}

\* a chat request with attachments of every kind
ChatAttachments ==
    Chat({PlainMsg}, {NoConv, "c1"}, AttachmentLists, {NoDspy}, {AllUp}, BOOLEAN,
         {TRUE}, MaxStore, MaxMessageCount)

NextFiles == ChatAttachments \/ Respond

SpecFiles == Init /\ [][NextFiles]_vars

Supported(mimetype) ==
    mimetype[1] = "image" \/ mimetype \in {Pdf, Txt, Md}

Unsupported(mimetype) == ~Supported(mimetype)

KindOf(mimetype) ==
    CASE mimetype[1] = "image" -> "image"
      [] mimetype = Pdf        -> "document"
      [] OTHER                 -> "text"

KindsOf(files) == [i \in 1..Len(files) |-> KindOf(files[i])]

\* C13: an unsupported attachment does not fail the chat request: it is
\* dropped, the others are classified as image, document or text in their
\* order, generation runs with exactly those, and the request succeeds
\* whenever the LLM answers.
C13_UnsupportedDropped ==
    (ChatDone /\ out.files # <<>>) =>
        /\ out.processedFiles = KindsOf(SelectSeq(out.files, Supported))
        /\ out.reply.retrieved /\ out.reply.llmCalled
        /\ out.llmOk => out.status = 200 /\ out.reply.response = LlmText

\* an unsupported attachment followed by a markdown file
C13_Witness ==
    /\ ChatDone /\ out.status = 200
    /\ Len(out.files) = 2
    /\ Unsupported(out.files[1]) /\ out.files[2] = Md
    /\ out.processedFiles = <<"text">>

\* ------------------------------------------- documents in vector memory
MaxChunks == 2     \* chunks of one processed file
MaxDocStore == 3   \* records the in-memory store may hold in SpecDocuments

\* storeDocument, after initialize: this.vectorStore.set(documentId, ...)
\* under the id the caller gave; the record has no conversationId
StoreDocumentInitialized(v0, documentId, content, timestamp, embedding) ==
    IF ~v0.isInitialized THEN [thrown |-> FALSE, vm |-> v0]
    ELSE IF ~embedding.ok THEN [thrown |-> FALSE, vm |-> v0]
    ELSE [thrown |-> FALSE,
          vm |-> [v0 EXCEPT !.vectorStore =
                     MapSet(@, Doc(documentId, embedding.values, content, "document",
                                   NoConv, timestamp))]]

\* storeDocument: [thrown, vm]; the catch logs and continues
storeDocument(vm, documentId, content, timestamp, providerOk) ==
    StoreDocumentInitialized(ensureInitialized(vm), documentId, content, timestamp,
                             generateEmbedding(content, providerOk))

\* storeDocumentChunk: without an embedding model or with a failing provider
\* generateEmbedding throws; with an embedding, this.collection (never
\* assigned) makes this.collection.add throw a TypeError; the catch rethrows
storeDocumentChunk(vm, documentId, chunk, chunkIndex, providerOk) ==
    [thrown |-> TRUE, vm |-> ensureInitialized(vm)]

\* processTextFile, the loop over the chunks, from chunk i on
RECURSIVE StoreTextChunks(_, _, _, _, _, _)
StoreTextChunks(vm, fileId, chunks, i, now, oks) ==
    IF i >= Len(chunks) THEN vm
    ELSE StoreTextChunks(storeDocument(vm, fileId \o "_chunk_" \o ToString(i),
                                       chunks[i + 1], now, oks[i + 1]).vm,
                         fileId, chunks, i + 1, now, oks)

\* processTextFile: oks[i] tells whether the embedding of chunk i succeeds
processTextFile(vm, fileId, chunks, now, oks) ==
    [thrown |-> FALSE, vm |-> StoreTextChunks(vm, fileId, chunks, 0, now, oks)]

\* processPDF, one chunk of the loop: a throw goes to the catch of processPDF
PdfChunkStored(stored, rest) ==
    IF stored.thrown THEN [thrown |-> TRUE, vm |-> stored.vm] ELSE rest

\* processPDF, the loop over the chunks, from chunk i on
RECURSIVE StorePdfChunks(_, _, _, _, _)
StorePdfChunks(vm, fileId, chunks, i, oks) ==
    IF i >= Len(chunks) THEN [thrown |-> FALSE, vm |-> vm]
    ELSE PdfChunkStored(storeDocumentChunk(vm, fileId, chunks[i + 1], i, oks[i + 1]),
                        StorePdfChunks(storeDocumentChunk(vm, fileId, chunks[i + 1], i,
                                                          oks[i + 1]).vm,
                                       fileId, chunks, i + 1, oks))

\* processPDF: throws 'Failed to process PDF' when a chunk cannot be stored
processPDF(vm, fileId, chunks, oks) == StorePdfChunks(vm, fileId, chunks, 0, oks)

\* processFile, for a valid file of a supported type
processFile(vm, mimetype, fileId, chunks, now, oks) ==
    IF mimetype = Pdf THEN processPDF(vm, fileId, chunks, oks)
    ELSE processTextFile(vm, fileId, chunks, now, oks)

Chunks == {PlainMsg, LlmText}
ChunkLists == UNION {[1..n -> Chunks] : n \in 0..MaxChunks}

\* what `out` records of a processFile call: the file id as scope, the number
\* of chunks as limit, embed.q false when an embedding failed
ProcessFileOut(mimetype, fileId, chunks, oks, processed) ==
    [RouteOut("processFile", <<>>, fileId, Len(chunks),
              \A i \in 1..Len(chunks) : oks[i], TRUE)
        EXCEPT !.files = <<mimetype>>,
               !.status = IF processed.thrown THEN 500 ELSE 200,
               !.reply = [Reply EXCEPT !.thrown = processed.thrown]]

\* fileProcessingService.processFile(file): uuidv4 gives an id no record has
ProcessFile ==
    /\ Idle
    /\ \E mimetype \in {Pdf, Txt}, fileId \in FileIds, chunks \in ChunkLists :
          /\ \A i \in 1..Len(vectorStore) :
                \A k \in 0..MaxChunks :
                   vectorStore[i].id # fileId \o "_chunk_" \o ToString(k)
          /\ \E oks \in [1..Len(chunks) -> BOOLEAN] :
                ApplyWithin(
                    RouteResult(ProcessFileOut(mimetype, fileId, chunks, oks,
                                    processFile(Memory, mimetype, fileId, chunks,
                                                clock, oks)),
                                processFile(Memory, mimetype, fileId, chunks, clock,
                                            oks).vm),
                    MaxDocStore, MaxMessageCount)

\* a chat turn without attachments answered by the direct LLM
DocChat ==
    Chat(Messages, {"c1"}, {<<>>}, {NoDspy}, EmbedEnvs, {TRUE}, {TRUE}, MaxDocStore,
         MaxMessageCount)

NextDocuments == ProcessFile \/ DocChat \/ Respond \/ Tick

SpecDocuments == InitMemory /\ [][NextDocuments]_vars

\* the last operation was a memory write whose embedding failed
WriteEmbeddingFailed ==
    \/ ChatDone /\ ~out.embed.u
    \/ out.op = "processFile" /\ out.limit > 0 /\ ~out.embed.q

\* C14: when the embedding provider fails, a memory write (storeConversation,
\* storeDocument, storeDocumentChunk) is skipped and returns normally, so the
\* chat turn or the file processing that asked for it does not fail.
C14_WriteFailureSkipped ==
    WriteEmbeddingFailed => out.status = 200 /\ ~out.reply.thrown

\* --------------------------------------------- calls in flight at an await
\* A call runs without interruption from one await to the next; what it
\* awaits is its pc.  Calls interleave only at these points.
MaxCalls == 2   \* calls started in one behaviour

Call(op, pc, conversationId, userMessage, aiResponse, timestamp, enhanced) ==
    [op |-> op, pc |-> pc, conversationId |-> conversationId,
     userMessage |-> userMessage, aiResponse |-> aiResponse,
     timestamp |-> timestamp, enhanced |-> enhanced, userId |-> "", aiId |-> ""]

Finished(call) == call.pc \in {"done", "error"}

\* the variables a step of a call in flight may write
SetMemory(vm) ==
    /\ vectorStore' = vm.vectorStore
    /\ idCounter' = vm.idCounter
    /\ isInitialized' = vm.isInitialized

CallFrame ==
    UNCHANGED <<page, posts, admin, loaded,
                apiKey, isEnabled, fallbackToGemini, isHealthy, lastHealthCheck,
                conversations, clock, fileDocs, out>>

\* storeConversation up to its first await: initialize() has no await of its
\* own, so it has run to its end when `await this.initialize()` suspends the
\* call; an initialized service goes straight to the first embedding
BeginStore ==
    /\ Len(calls) < MaxCalls
    /\ \E conversationId \in ConvIds, userMessage \in Messages :
          /\ calls' = Append(calls,
                        Call("store",
                             IF isInitialized THEN "embedUser" ELSE "initialized",
                             conversationId, userMessage, LlmText, clock, FALSE))
          /\ SetMemory(ensureInitialized(Memory))
    /\ CallFrame

\* storeConversation resumed after `await this.initialize()`
AfterInitialize(i) ==
    /\ i \in 1..Len(calls) /\ calls[i].pc = "initialized"
    /\ calls' = [calls EXCEPT ![i].pc = IF isInitialized THEN "embedUser" ELSE "done"]
    /\ UNCHANGED <<vectorStore, idCounter, isInitialized>>
    /\ CallFrame

\* storeConversation resumed with the embedding of the user message: the id
\* is taken and the record set before the next await; a throw of
\* generateEmbedding ends the call in its catch
EmbedUserAnswer(i, ok) ==
    /\ i \in 1..Len(calls) /\ calls[i].pc = "embedUser"
    /\ IF ok
       THEN /\ SetMemory(StoreDoc(Memory, "_user_", "user_message",
                                  calls[i].conversationId, calls[i].userMessage,
                                  Embedding(calls[i].userMessage), calls[i].timestamp))
            /\ calls' = [calls EXCEPT
                           ![i].pc = "embedAi",
                           ![i].userId = calls[i].conversationId \o "_user_"
                                            \o ToString(idCounter)]
       ELSE /\ calls' = [calls EXCEPT ![i].pc = "done"]
            /\ UNCHANGED <<vectorStore, idCounter, isInitialized>>
    /\ CallFrame

\* storeConversation resumed with the embedding of the AI response
EmbedAiAnswer(i, ok) ==
    /\ i \in 1..Len(calls) /\ calls[i].pc = "embedAi"
    /\ IF ok
       THEN /\ SetMemory(StoreDoc(Memory, "_ai_", "ai_response",
                                  calls[i].conversationId, calls[i].aiResponse,
                                  Embedding(calls[i].aiResponse), calls[i].timestamp))
            /\ calls' = [calls EXCEPT
                           ![i].pc = "done",
                           ![i].aiId = calls[i].conversationId \o "_ai_"
                                          \o ToString(idCounter)]
       ELSE /\ calls' = [calls EXCEPT ![i].pc = "done"]
            /\ UNCHANGED <<vectorStore, idCounter, isInitialized>>
    /\ CallFrame

\* the embedding provider answers an awaiting call, or fails
EmbeddingAnswers ==
    \E i \in 1..MaxCalls, ok \in BOOLEAN :
        EmbedUserAnswer(i, ok) \/ EmbedAiAnswer(i, ok)

Resumes == \E i \in 1..MaxCalls : AfterInitialize(i)

NextConcurrent == BeginStore \/ Resumes \/ EmbeddingAnswers \/ Tick

SpecConcurrent == InitMemory /\ [][NextConcurrent]_vars

\* the ids the calls were given, in the order of the calls
RECURSIVE GivenIds(_)
GivenIds(cs) ==
    IF cs = <<>> THEN <<>>
    ELSE (IF Head(cs).userId # "" THEN <<Head(cs).userId>> ELSE <<>>)
         \o (IF Head(cs).aiId # "" THEN <<Head(cs).aiId>> ELSE <<>>)
         \o GivenIds(Tail(cs))

Stored(id, document, type, call) ==
    \E j \in 1..Len(vectorStore) :
        /\ vectorStore[j].id = id
        /\ vectorStore[j].document = document
        /\ vectorStore[j].type = type
        /\ vectorStore[j].conversationId = call.conversationId
        /\ vectorStore[j].timestamp = call.timestamp

\* C16: however concurrent storeConversation calls interleave at their
\* awaits, every record they insert has an id of its own, none is overwritten
\* or lost, and k calls whose embeddings all succeed leave 2k records.
C16_ConcurrentInsertsKept ==
    /\ \A m, n \in 1..Len(GivenIds(calls)) :
          m # n => GivenIds(calls)[m] # GivenIds(calls)[n]
    /\ Len(vectorStore) = Len(GivenIds(calls))
    /\ \A i \in 1..Len(calls) :
          /\ calls[i].userId # "" =>
                Stored(calls[i].userId, calls[i].userMessage, "user_message", calls[i])
          /\ calls[i].aiId # "" =>
                Stored(calls[i].aiId, calls[i].aiResponse, "ai_response", calls[i])
          /\ (calls[i].pc = "done" /\ calls[i].aiId # "") => calls[i].userId # ""

\* two calls for the same conversation, interleaved record by record, both
\* finished with all four embeddings
C16_Witness ==
    /\ Len(calls) = 2
    /\ calls[1].conversationId = calls[2].conversationId
    /\ \A i \in 1..2 : calls[i].pc = "done" /\ calls[i].aiId # ""
    /\ Len(vectorStore) = 4
    /\ vectorStore[1].id = calls[1].userId /\ vectorStore[2].id = calls[2].userId
    /\ vectorStore[3].id = calls[1].aiId /\ vectorStore[4].id = calls[2].aiId

\* ------------------------------------------ a chat request, await by await
\* generateResponse split at the remote calls it awaits: GET /health
\* ("health"), POST /chat ("dspyChat"), embedContent for the query
\* ("embedQuery"), generateContent ("generate"), then storeConversation
\* ("embedUser", "embedAi").  The update of the Conversation document, which
\* follows the last of them, is part of the whole-handler action Chat.

\* where the direct path first waits: retrieveRelevantContext embeds the
\* query unless vector memory is unavailable
DirectStart(vm) == IF vm.isInitialized THEN "embedQuery" ELSE "generate"

\* where storeConversation first waits
StoreStart(vm) == IF vm.isInitialized THEN "embedUser" ELSE "done"

\* app.post('/api/chat') up to the first remote call
BeginChat ==
    /\ Len(calls) < MaxCalls
    /\ \E message \in Messages, ctxConv \in ChatConvIds :
          /\ calls' = Append(calls,
                        Call("chat",
                             IF isEnabled THEN "health"
                             ELSE DirectStart(ensureInitialized(Memory)),
                             ResolveConversationId(ctxConv, clock), message, <<>>,
                             clock, FALSE))
          /\ SetMemory(IF isEnabled THEN Memory ELSE ensureInitialized(Memory))
    /\ CallFrame

HealthFrame ==
    UNCHANGED <<page, posts, admin, loaded,
                apiKey, isEnabled, fallbackToGemini, conversations, clock, fileDocs,
                out>>

\* checkHealth resumed: with the answer of GET /health, or with the error
\* axios raises (the 5000 ms timeout among them).  An unhealthy service
\* makes generateEnhancedResponse return null or throw; generateResponse
\* catches the throw and takes the direct path in both cases
HealthAnswer(i, ok) ==
    /\ i \in 1..Len(calls) /\ calls[i].pc = "health"
    /\ isHealthy' = ok
    /\ lastHealthCheck' = clock
    /\ IF ok /\ ~isMemoryQuery(calls[i].userMessage)
       THEN /\ calls' = [calls EXCEPT ![i].pc = "dspyChat", ![i].enhanced = TRUE]
            /\ UNCHANGED <<vectorStore, idCounter, isInitialized>>
       ELSE /\ calls' = [calls EXCEPT
                           ![i].pc = IF ok /\ ~ensureInitialized(Memory).isInitialized
                                     THEN "dspyChat"
                                     ELSE DirectStart(ensureInitialized(Memory)),
                           ![i].enhanced = ok]
            /\ SetMemory(ensureInitialized(Memory))
    /\ HealthFrame

\* axios.get(..., {timeout: 5000}) gives up
HealthTimeout(i) == HealthAnswer(i, FALSE)

\* retrieveRelevantContext resumed: an error of the embedding is caught and
\* the context is empty.  The enhanced path goes on to POST /chat, the
\* direct path to generateContent
QueryEmbeddingAnswer(i, ok) ==
    /\ i \in 1..Len(calls) /\ calls[i].pc = "embedQuery"
    /\ calls' = [calls EXCEPT
                   ![i].pc = IF calls[i].enhanced THEN "dspyChat" ELSE "generate"]
    /\ UNCHANGED <<vectorStore, idCounter, isInitialized>>
    /\ CallFrame

\* generateEnhancedResponse resumed after POST /chat: an answer is stored
\* and returned, an error (the timeout among them) leads to the direct path
DspyChatAnswer(i, ok) ==
    /\ i \in 1..Len(calls) /\ calls[i].pc = "dspyChat"
    /\ calls' = [calls EXCEPT
                   ![i].pc = IF ok THEN StoreStart(ensureInitialized(Memory))
                             ELSE DirectStart(ensureInitialized(Memory)),
                   ![i].aiResponse = IF ok THEN DspyText ELSE <<>>,
                   ![i].enhanced = ok]
    /\ SetMemory(ensureInitialized(Memory))
    /\ CallFrame

\* axios.post(..., {timeout: this.timeout}) gives up
DspyChatTimeout(i) == DspyChatAnswer(i, FALSE)

\* generateResponse resumed after this.model.generateContent(prompt): the
\* answer is stored, an error goes to the caller
GenerateAnswer(i, ok) ==
    /\ i \in 1..Len(calls) /\ calls[i].pc = "generate"
    /\ calls' = [calls EXCEPT
                   ![i].pc = IF ok THEN StoreStart(ensureInitialized(Memory))
                             ELSE "error",
                   ![i].aiResponse = IF ok THEN LlmText ELSE <<>>]
    /\ SetMemory(IF ok THEN ensureInitialized(Memory) ELSE Memory)
    /\ CallFrame

\* the enhanced service answers or fails
DspyAnswers ==
    \E i \in 1..MaxCalls, ok \in BOOLEAN : HealthAnswer(i, ok) \/ DspyChatAnswer(i, ok)

\* a timer of axios fires
Timeouts == \E i \in 1..MaxCalls : HealthTimeout(i) \/ DspyChatTimeout(i)

\* the embedding provider or the LLM answers or fails
ProviderAnswers ==
    \E i \in 1..MaxCalls, ok \in BOOLEAN :
        QueryEmbeddingAnswer(i, ok) \/ GenerateAnswer(i, ok)

NextTimeouts ==
    BeginChat \/ DspyAnswers \/ Timeouts \/ ProviderAnswers \/ EmbeddingAnswers

\* a remote service may never answer; the only steps sure to happen are the
\* timers the code sets, those of the two axios calls
SpecTimeouts ==
    /\ Init
    /\ [][NextTimeouts]_vars
    /\ \A i \in 1..MaxCalls : WF_vars(HealthTimeout(i)) /\ WF_vars(DspyChatTimeout(i))

\* C15: every chat request eventually ends, with its answer or with an
\* error, even when the embedding provider or the LLM never answers.
C15_EveryRequestEnds ==
    \A i \in 1..MaxCalls :
        (Len(calls) >= i) ~> (Len(calls) >= i /\ Finished(calls[i]))

\* ------------------------------------------ the store's write operations
\* ids a caller of storeDocument may pass: storeDocument takes the id from
\* its caller and does not look whether a record already has it
DocumentIds == {"d1", "c1_user_0"}

\* vectorMemoryService.storeDocument(documentId, content)
StoreDocument ==
    /\ Idle
    /\ \E documentId \in DocumentIds, content \in Chunks, providerOk \in BOOLEAN :
          ApplyWithin(
              RouteResult([RouteOut("storeDocument", content, documentId, 0,
                                    providerOk, TRUE) EXCEPT !.status = 200],
                          storeDocument(Memory, documentId, content, clock,
                                        providerOk).vm),
              MaxDocStore, MaxMessageCount)

NextStore == StoreDocument \/ DocChat \/ Respond \/ Tick

SpecStore == InitMemory /\ [][NextStore]_vars

\* C17: a record, once in the store, is never changed or replaced by a store
\* operation (storeConversation, storeDocument): every record of the store
\* is still there, as it was, after the operation.
C17_RecordsImmutable ==
    [][\A i \in 1..Len(vectorStore) :
          \E j \in 1..Len(vectorStore') : vectorStore'[j] = vectorStore[i]]_vars

\* a chat request without attachments, handled with the enhanced service
\* switched on: generateEnhancedResponse went past its isEnabled test
EnhancedCall == ChatDone /\ out.files = <<>> /\ isEnabled

\* C18 as stated: routing rests on the cached health flag, which a call does
\* not check again while it is fresh, so a call made when the flag says
\* healthy leaves the flag as it found it.
C18_CachedFlagTrusted ==
    [][(EnhancedCall' /\ isHealthy /\ lastHealthCheck = clock)
          => isHealthy' = isHealthy]_vars

\* C18: every generateEnhancedResponse call of an enabled service asks
\* GET /health itself before it routes: after the call the flag is the
\* answer this call got, stamped with this call's time, and an enhanced
\* answer is only returned when this call found the service healthy.
C18_HealthCheckedEveryCall ==
    EnhancedCall =>
        /\ isHealthy = (out.dspy.health = "healthy")
        /\ lastHealthCheck = clock
        /\ out.reply.dspyKind = "enhanced" => out.dspy.health = "healthy"

\* the enhanced service answered an earlier turn, so the flag was healthy,
\* and this call found it unreachable
C18_Witness ==
    /\ EnhancedCall /\ out.dspy.health = "unreachable" /\ ~isHealthy
    /\ out.before > 0
    /\ \E i \in 1..out.before : vectorStore[i].document = DspyText

\* ------------------------------------------------ the File document
\* enum: ['pending', 'processing', 'completed', 'failed']
ProcessingStatuses == {"pending", "processing", "completed", "failed"}
\* processingError: "" stands for null
ProcessingErrors == {"", "parse error", "disk full"}

FileFrame ==
    UNCHANGED <<page, posts, admin, loaded,
                apiKey, isEnabled, fallbackToGemini, vectorStore, idCounter,
                isInitialized, isHealthy, lastHealthCheck, conversations, clock,
                calls, out>>

\* new File({...}).save(): the schema's default is 'pending', the upload
\* routes pass 'completed'
CreateFile ==
    /\ \E f \in FileIds, status \in {"pending", "completed"} :
          /\ fileDocs[f] = NoFile
          /\ fileDocs' = [fileDocs EXCEPT
                            ![f] = [processingStatus |-> status, processingError |-> ""]]
    /\ FileFrame

\* fileSchema.methods.updateProcessingStatus(status, error = null): save()
\* rejects a status outside the enum and the stored document stays
updateProcessingStatus(doc, status, error) ==
    IF status \notin ProcessingStatuses THEN doc
    ELSE [processingStatus |-> status,
          processingError |-> IF error # "" THEN error ELSE doc.processingError]

\* fileSchema.methods.markAsCompleted()
markAsCompleted(doc) == [processingStatus |-> "completed", processingError |-> ""]

\* fileSchema.methods.markAsFailed(error)
markAsFailed(doc, error) == [processingStatus |-> "failed", processingError |-> error]

UpdateProcessingStatus ==
    /\ \E f \in FileIds, status \in ProcessingStatuses \cup {"archived"},
          error \in ProcessingErrors :
          /\ fileDocs[f] # NoFile
          /\ fileDocs' = [fileDocs EXCEPT
                            ![f] = updateProcessingStatus(fileDocs[f], status, error)]
    /\ FileFrame

MarkAsCompleted ==
    /\ \E f \in FileIds :
          /\ fileDocs[f] # NoFile
          /\ fileDocs' = [fileDocs EXCEPT ![f] = markAsCompleted(fileDocs[f])]
    /\ FileFrame

MarkAsFailed ==
    /\ \E f \in FileIds, error \in ProcessingErrors :
          /\ fileDocs[f] # NoFile
          /\ fileDocs' = [fileDocs EXCEPT ![f] = markAsFailed(fileDocs[f], error)]
    /\ FileFrame

NextFileStatus == CreateFile \/ UpdateProcessingStatus \/ MarkAsCompleted \/ MarkAsFailed

SpecFileStatus == Init /\ [][NextFileStatus]_vars

\* how far a status is along pending -> processing -> completed | failed
StatusRank(status) ==
    CASE status = "pending"    -> 1
      [] status = "processing" -> 2
      [] OTHER                 -> 3

\* C19: the processingStatus of a File only moves forward: no call of
\* updateProcessingStatus, markAsCompleted or markAsFailed takes it back to
\* an earlier status, and a completed or failed file keeps its status.
C19_StatusOnlyForward ==
    [][\A f \in FileIds :
          fileDocs[f] # NoFile =>
             /\ StatusRank(fileDocs'[f].processingStatus)
                   >= StatusRank(fileDocs[f].processingStatus)
             /\ fileDocs[f].processingStatus \in {"completed", "failed"} =>
                   fileDocs'[f].processingStatus = fileDocs[f].processingStatus]_vars

\* ------------------------------------------------ the context block
\* the properties of an item of retrieveRelevantContext: content, metadata,
\* similarity, distance.  The model keeps the fields of metadata (type,
\* conversationId, timestamp) beside content; a read of item.<key> finds
\* only the four properties the item has, and undefined ("") for any other
ResultKeys == {"content", "metadata", "similarity", "distance"}

ItemProperty(item, key) ==
    IF key \in ResultKeys /\ key \in DOMAIN item THEN item[key] ELSE ""

\* item.conversationId && item.conversationId !== currentConversationId
isFromDifferentConversation(item, currentConversationId) ==
    /\ ItemProperty(item, "conversationId") # ""
    /\ ItemProperty(item, "conversationId") # currentConversationId

\* one line of "Relevant Previous Context": `${contextLabel}. ${item.content}`
\* and, for another conversation, "(From conversation: ...)"
MatchLine(item, index, currentConversationId) ==
    [section |-> "match",
     label |-> IF isFromDifferentConversation(item, currentConversationId)
               THEN "Previous Conversation" ELSE "",
     index |-> index,
     content |-> ItemProperty(item, "content"),
     from |-> IF isFromDifferentConversation(item, currentConversationId)
              THEN ItemProperty(item, "conversationId") ELSE ""]

\* one line of "Recent Conversation History": item.metadata.type
HistoryLine(item, index) ==
    [section |-> "history",
     label |-> IF item.type = "user_message" THEN "Student" ELSE "Tutor",
     index |-> index, content |-> item.content, from |-> ""]

\* prepareContext(context, relevantContext, conversationHistory,
\* currentConversationId), for a context without profile or portfolio
prepareContext(relevantContext, conversationHistory, currentConversationId) ==
    [i \in 1..Len(relevantContext) |->
        MatchLine(relevantContext[i], i, currentConversationId)]
    \o [i \in 1..Len(conversationHistory) |-> HistoryLine(conversationHistory[i], i)]

\* what `out` records of a rendering: the matches in reply.relevantContext,
\* the history in reply.conversationHistory, the lines in results
RenderOut(query, currentConversationId, relevantContext, conversationHistory) ==
    [RouteOut("prepareContext", query, currentConversationId, 5, TRUE, TRUE)
        EXCEPT !.status = 200,
               !.reply = [Reply EXCEPT !.retrieved = TRUE,
                                       !.relevantContext = relevantContext,
                                       !.conversationHistory = conversationHistory],
               !.results = prepareContext(relevantContext, conversationHistory,
                                          currentConversationId)]

\* the context block of a turn of conversation currentConversationId, over
\* the matches a retrieval of the given scope returns
PrepareContext ==
    /\ Idle
    /\ \E query \in Messages, currentConversationId \in ConvIds,
          scope \in {NoConv} \cup ConvIds :
          Apply(RouteResult(
                    RenderOut(query, currentConversationId,
                              retrieveRelevantContext(Memory, query, 5, scope,
                                                      TRUE).results,
                              getConversationHistory(Memory, currentConversationId, 5)),
                    ensureInitialized(Memory)))

NextContext == MemChat \/ PrepareContext \/ Respond \/ Tick

SpecContext == InitMemory /\ [][NextContext]_vars

\* C20: in the rendered context block a semantic match from another
\* conversation is labelled as a previous conversation and its conversation
\* id is noted; a match from the current conversation has neither.
C20_ProvenanceNoted ==
    out.op = "prepareContext" =>
        \A i \in 1..Len(out.reply.relevantContext) :
            IF out.reply.relevantContext[i].conversationId # out.scope
            THEN /\ out.results[i].label = "Previous Conversation"
                 /\ out.results[i].from = out.reply.relevantContext[i].conversationId
            ELSE /\ out.results[i].label = ""
                 /\ out.results[i].from = ""

\* ------------------------------------------------------------ ChatPage
\* the requests one page sends
MaxPosts == 2

\* a text of white space only
Blank == <<" ">>

\* String.prototype.trim: white space at either end is dropped
RECURSIVE trim(_)
trim(text) ==
    IF text = <<>> THEN <<>>
    ELSE IF Head(text) = " " THEN trim(Tail(text))
    ELSE IF text[Len(text)] = " " THEN trim(SubSeq(text, 1, Len(text) - 1))
    ELSE text

\* what the user can type and attach
InputTexts == {NoMessage, Blank, PlainMsg}
SelectableFiles == {<<>>, <<Pdf, Png>>}

\* how axios.post('/api/chat') with timeout 30000 can end: a 2xx response
\* with success true or false, a response with an error status, the timeout,
\* or no response for another reason
PostOutcomes == {"success", "unsuccessful", "status", "timeout", "network"}
Failures == PostOutcomes \ {"success"}

ServerError == <<"Internal", "server", "error">>

\* the error the catch block of handleSendMessage receives: axios sets
\* error.request on every error raised after the request was made, the
\* timeout (code ECONNABORTED) included; the Error thrown for success: false
\* carries neither a response nor a request
CaughtError(outcome) ==
    [response |-> outcome = "status",
     request  |-> outcome \in {"status", "timeout", "network"},
     code     |-> CASE outcome = "timeout" -> "ECONNABORTED"
                    [] outcome = "network" -> "ERR_NETWORK"
                    [] outcome = "status" -> "ERR_BAD_RESPONSE"
                    [] OTHER -> "",
     message  |-> ServerError]

ServerErrorText(text) == <<"Server error:">> \o text
CannotConnectText == <<"Unable", "to", "connect", "to", "the", "server">>
TimeoutText == <<"Request", "timed", "out">>
OtherErrorText(text) == <<"Error:">> \o text

\* the branches of the catch block, in the order of the code
errorMessage(error) ==
    IF error.response THEN ServerErrorText(error.message)
    ELSE IF error.request THEN CannotConnectText
    ELSE IF error.code = "ECONNABORTED" THEN TimeoutText
    ELSE OtherErrorText(error.message)

errorStatus(error) ==
    IF error.response THEN "connected"
    ELSE IF error.request THEN "disconnected"
    ELSE IF error.code = "ECONNABORTED" THEN "timeout"
    ELSE "error"

UserMessage(content, files) ==
    [type |-> "user", content |-> content, files |-> files, isError |-> FALSE,
     retryData |-> <<>>]

AiMessage(content) ==
    [type |-> "ai", content |-> content, files |-> <<>>, isError |-> FALSE,
     retryData |-> <<>>]

ErrorResponse(content, currentMessage, currentFiles) ==
    [type |-> "ai", content |-> content, files |-> <<>>, isError |-> TRUE,
     retryData |-> <<[message |-> currentMessage, files |-> currentFiles]>>]

\* the request handleSendMessage sends, with the values its closure holds
Post(currentMessage, conversationId, currentFiles) ==
    [message |-> currentMessage, conversationId |-> conversationId,
     files |-> currentFiles, outcome |-> "pending"]

\* handleSendMessage up to its await. render holds the state values of the
\* render that created the handler; state is the state the setters of this
\* event have produced so far
handleSendMessage(render, state) ==
    IF (trim(render.inputMessage) = NoMessage /\ render.selectedFiles = <<>>)
          \/ render.isLoading
    THEN [page |-> state, sent |-> <<>>]
    ELSE [page |-> [state EXCEPT
                      !.messages = Append(@, UserMessage(render.inputMessage,
                                                         render.selectedFiles)),
                      !.inputMessage = NoMessage,
                      !.selectedFiles = <<>>,
                      !.showFileUpload = FALSE,
                      !.isLoading = TRUE,
                      !.connectionStatus = "connecting"],
          sent |-> <<Post(render.inputMessage, render.conversationId,
                          render.selectedFiles)>>]

RECURSIVE WithoutErrors(_)
WithoutErrors(messages) ==
    IF messages = <<>> THEN <<>>
    ELSE IF Head(messages).isError THEN WithoutErrors(Tail(messages))
    ELSE <<Head(messages)>> \o WithoutErrors(Tail(messages))

\* handleRetry: the three setters, then handleSendMessage of the same render
handleRetry(render, retryData) ==
    handleSendMessage(render,
                      [render EXCEPT !.messages = WithoutErrors(@),
                                     !.inputMessage = retryData.message,
                                     !.selectedFiles = retryData.files])

\* the continuation of handleSendMessage after a 2xx response with success
OnSuccess(state, post, response, conversationId) ==
    [state EXCEPT
       !.connectionStatus = "connected",
       !.messages = Append(@, AiMessage(response)),
       !.conversationId = IF post.conversationId = NoConv /\ conversationId # NoConv
                          THEN conversationId ELSE @,
       !.isLoading = FALSE]

\* the catch block of handleSendMessage
OnError(state, post, error) ==
    [state EXCEPT
       !.connectionStatus = errorStatus(error),
       !.messages = Append(@, ErrorResponse(errorMessage(error), post.message,
                                            post.files)),
       !.isLoading = FALSE]

\* the event of the page as `out` records it
PageOut(op, message, files) ==
    [OutNone EXCEPT !.op = op, !.message = message, !.files = files]

PageFrame ==
    UNCHANGED <<apiKey, isEnabled, fallbackToGemini, vectorStore, idCounter,
                isInitialized, isHealthy, lastHealthCheck, conversations, clock,
                calls, fileDocs, admin, loaded>>

\* onChange of the input, which is disabled while a request is loading
TypeMessage ==
    \E text \in InputTexts :
       /\ ~page.isLoading
       /\ page' = [page EXCEPT !.inputMessage = text]
       /\ UNCHANGED posts
       /\ out' = PageOut("type", text, page.selectedFiles)
       /\ PageFrame

\* the paperclip button
ToggleFileUpload ==
    /\ ~page.isLoading
    /\ page' = [page EXCEPT !.showFileUpload = ~@]
    /\ UNCHANGED posts
    /\ out' = PageOut("toggle", page.inputMessage, page.selectedFiles)
    /\ PageFrame

\* onFilesSelected of the FileUpload area
SelectFiles ==
    \E files \in SelectableFiles :
       /\ page.showFileUpload
       /\ page' = [page EXCEPT !.selectedFiles = files]
       /\ UNCHANGED posts
       /\ out' = PageOut("select", page.inputMessage, files)
       /\ PageFrame

\* onSubmit of the form
SendMessage ==
    /\ Len(posts) < MaxPosts
    /\ page' = handleSendMessage(page, page).page
    /\ posts' = posts \o handleSendMessage(page, page).sent
    /\ out' = PageOut("send", page.inputMessage, page.selectedFiles)
    /\ PageFrame

\* a click on the Retry button of an error message
Retry ==
    \E m \in 1..Len(page.messages) :
       /\ Len(posts) < MaxPosts
       /\ page.messages[m].isError
       /\ ~page.isLoading
       /\ page' = handleRetry(page, page.messages[m].retryData[1]).page
       /\ posts' = posts \o handleRetry(page, page.messages[m].retryData[1]).sent
       /\ out' = PageOut("retry", page.messages[m].retryData[1].message,
                        page.messages[m].retryData[1].files)
       /\ PageFrame

PostSucceeds ==
    \E i \in 1..Len(posts) : \E conversationId \in {"c1"} :
       /\ posts[i].outcome = "pending"
       /\ posts' = [posts EXCEPT ![i].outcome = "success"]
       /\ page' = OnSuccess(page, posts[i], LlmText, conversationId)
       /\ out' = PageOut("answer", posts[i].message, posts[i].files)
       /\ PageFrame

PostFails ==
    \E i \in 1..Len(posts) : \E outcome \in Failures :
       /\ posts[i].outcome = "pending"
       /\ posts' = [posts EXCEPT ![i].outcome = outcome]
       /\ page' = OnError(page, posts[i], CaughtError(outcome))
       /\ out' = PageOut("answer", posts[i].message, posts[i].files)
       /\ PageFrame

NextPage ==
    TypeMessage \/ ToggleFileUpload \/ SelectFiles \/ SendMessage \/ Retry
       \/ PostSucceeds \/ PostFails

\* the page by itself: the settings of the server play no part
InitPage == Init /\ apiKey /\ ~isEnabled /\ fallbackToGemini

SpecPage == InitPage /\ [][NextPage]_vars

\* the request i that ends in this step, and how
Ends(i, outcome) ==
    /\ i \in 1..Len(posts)
    /\ posts[i].outcome = "pending"
    /\ posts'[i].outcome = outcome

ErrorShown(text) ==
    /\ Len(page'.messages) = Len(page.messages) + 1
    /\ SubSeq(page'.messages, 1, Len(page.messages)) = page.messages
    /\ page'.messages[Len(page'.messages)].isError
    /\ page'.messages[Len(page'.messages)].content = text

\* C21: a chat request that fails adds exactly one error message, and its
\* text tells the cause: the server-error text after a response with an error
\* status, the timeout text after a timeout, the cannot-connect text when no
\* response came for another reason
C21_ErrorTellsCause ==
    [][\A i \in 1..MaxPosts :
          /\ Ends(i, "status") => ErrorShown(ServerErrorText(ServerError))
          /\ Ends(i, "timeout") => ErrorShown(TimeoutText)
          /\ Ends(i, "network") => ErrorShown(CannotConnectText)]_vars

\* a click on Retry happens in this step
RetryClicked == out'.op = "retry"

\* C22: Retry on a failed message removes the error message and sends a new
\* request with the message text and the attachments of the failed request
C22_RetryResends ==
    [][RetryClicked =>
          /\ \A k \in 1..Len(page'.messages) : ~page'.messages[k].isError
          /\ Len(posts') = Len(posts) + 1
          /\ posts'[Len(posts')].message = out'.message
          /\ posts'[Len(posts')].files = out'.files]_vars

\* ------------------------------------------- cosineSimilarity by itself
MaxDim == 2
MaxComponent == 1

RECURSIVE VectorsOf(_)
VectorsOf(n) ==
    IF n = 0 THEN {<<>>}
    ELSE {<<x>> \o v : x \in -MaxComponent..MaxComponent, v \in VectorsOf(n - 1)}

Vectors == UNION {VectorsOf(n) : n \in 0..MaxDim}

\* one call of cosineSimilarity, its arguments and its result
Similarity ==
    \E vecA \in Vectors : \E vecB \in Vectors :
       /\ out = OutNone
       /\ out' = [OutNone EXCEPT !.op = "similarity", !.message = <<vecA, vecB>>,
                                 !.reply = cosineSimilarity(vecA, vecB)]
       /\ UNCHANGED <<apiKey, isEnabled, fallbackToGemini, vectorStore, idCounter,
                      isInitialized, isHealthy, lastHealthCheck, conversations,
                      clock, calls, fileDocs, page, posts, admin, loaded>>

NextSimilarity == Similarity

SpecSimilarity == InitPage /\ [][NextSimilarity]_vars

NormIsZero(vec) == \A i \in 1..Len(vec) : vec[i] = 0

IsNaN(sim) == sim.d = 0

\* C23: cosineSimilarity of two vectors of equal length of which at least one
\* has norm zero (both may be the zero vector) is 0: not NaN, not an exception
C23_ZeroNormGivesZero ==
    (/\ out.op = "similarity"
     /\ Len(out.message[1]) = Len(out.message[2])
     /\ NormIsZero(out.message[1]) \/ NormIsZero(out.message[2]))
       => /\ ~SimThrows(out.reply)
          /\ ~IsNaN(out.reply)
          /\ out.reply.s * out.reply.n = 0

\* the zero vector against a vector that is not zero
C23_Witness ==
    /\ out.op = "similarity"
    /\ out.message = <<<<0, 0>>, <<1, -1>>>>
    /\ out.reply = ZeroSim

\* the records the last chat request added to the store
TurnRecords == SubSeq(vectorStore, out.before + 1, Len(vectorStore))

\* C24: storeConversation is all-or-nothing: after the call the store holds
\* both the user-message record and the AI-response record of the turn or
\* neither, also when only the embedding of the AI response fails
C24_TurnStoredWhole ==
    (ChatDone /\ out.status = 200) =>
       \/ TurnRecords = <<>>
       \/ /\ Len(TurnRecords) = 2
          /\ TurnRecords[1].type = "user_message"
          /\ TurnRecords[2].type = "ai_response"

\* ----------------------------- updateConversationMetadata, interleaved
\* a call of updateConversationMetadata in flight: conversation is the
\* document the call holds, isNew tells whether the call constructed it
MetadataCall(pc, conversationId, conversation, isNew) ==
    [op |-> "metadata", pc |-> pc, conversationId |-> conversationId,
     conversation |-> conversation, isNew |-> isNew]

\* Conversation.findOne({ conversationId }): the stored document, or null
findOne(convs, conversationId) ==
    IF HasConversation(convs, conversationId)
    THEN <<CHOOSE c \in convs : c.conversationId = conversationId>>
    ELSE <<>>

\* new Conversation({ conversationId, ..., messageCount: 1 })
NewConversation(conversationId, now) ==
    [conversationId |-> conversationId, messageCount |-> 1, lastActivity |-> now]

\* document.save() of a document read from the collection: the paths the
\* call changed are written over the stored ones
SaveExisting(convs, conversation) ==
    {IF c.conversationId = conversation.conversationId THEN conversation ELSE c :
       c \in convs}

\* document.save() of a new document: the unique index on conversationId
\* rejects a second document of the same id, and the catch logs the error
SaveNew(convs, conversation) ==
    IF HasConversation(convs, conversation.conversationId) THEN convs
    ELSE convs \cup {conversation}

MetadataFrame ==
    UNCHANGED <<apiKey, isEnabled, fallbackToGemini, vectorStore, idCounter,
                isInitialized, isHealthy, lastHealthCheck, clock, fileDocs, page,
                posts, admin, loaded, out>>

\* updateConversationMetadata up to `await Conversation.findOne(...)`
BeginMetadata ==
    /\ Len(calls) < MaxCalls
    /\ \E conversationId \in ConvIds :
          calls' = Append(calls, MetadataCall("findOne", conversationId, <<>>, FALSE))
    /\ UNCHANGED conversations
    /\ MetadataFrame

\* resumed with the answer of findOne: a new document is constructed, or
\* incrementMessageCount changes the document read and starts its save()
FindOneAnswer(i) ==
    /\ i \in 1..Len(calls)
    /\ calls[i].op = "metadata"
    /\ calls[i].pc = "findOne"
    /\ calls' = [calls EXCEPT ![i] =
                   IF findOne(conversations, calls[i].conversationId) = <<>>
                   THEN MetadataCall("save", calls[i].conversationId,
                                     <<NewConversation(calls[i].conversationId, clock)>>,
                                     TRUE)
                   ELSE MetadataCall("increment", calls[i].conversationId,
                                     <<[findOne(conversations, calls[i].conversationId)[1]
                                          EXCEPT !.messageCount = @ + 1,
                                                 !.lastActivity = clock]>>,
                                     FALSE)]
    /\ UNCHANGED conversations
    /\ MetadataFrame

\* the save() of incrementMessageCount reaches the collection
IncrementSaved(i) ==
    /\ i \in 1..Len(calls)
    /\ calls[i].op = "metadata"
    /\ calls[i].pc = "increment"
    /\ conversations' = SaveExisting(conversations, calls[i].conversation[1])
    /\ calls' = [calls EXCEPT ![i].pc = "save"]
    /\ MetadataFrame

\* `await conversation.save()`: the insert of a new document, or a save with
\* nothing left to write; then the call returns
SaveAnswer(i) ==
    /\ i \in 1..Len(calls)
    /\ calls[i].op = "metadata"
    /\ calls[i].pc = "save"
    /\ conversations' = IF calls[i].isNew
                        THEN SaveNew(conversations, calls[i].conversation[1])
                        ELSE conversations
    /\ calls' = [calls EXCEPT ![i].pc = "done"]
    /\ MetadataFrame

FindOneAnswers == \E i \in 1..MaxCalls : FindOneAnswer(i)
IncrementsSaved == \E i \in 1..MaxCalls : IncrementSaved(i)
SaveAnswers == \E i \in 1..MaxCalls : SaveAnswer(i)

NextMetadata == BeginMetadata \/ FindOneAnswers \/ IncrementsSaved \/ SaveAnswers \/ Tick

SpecMetadata == InitMemory /\ [][NextMetadata]_vars

\* the turns of a conversation whose metadata update has returned
TurnsDone(conversationId) ==
    Cardinality({i \in 1..Len(calls) :
                   calls[i].conversationId = conversationId /\ Finished(calls[i])})

AllReturned == Len(calls) = MaxCalls /\ \A i \in 1..Len(calls) : Finished(calls[i])

\* C25: when concurrent requests of one conversation have all completed, the
\* messageCount of the Conversation equals the number of completed turns,
\* also when they are the first requests of a new conversation id
C25_NoIncrementLost ==
    AllReturned =>
       \A conversationId \in ConvIds :
          TurnsDone(conversationId) > 0 =>
             \E c \in conversations :
                /\ c.conversationId = conversationId
                /\ c.messageCount = TurnsDone(conversationId)

\* --------------------------------- the conversation id of the answer
\* the enhanced service answers with the conversation_id it was sent, or with
\* another one
DspyEchoEnvs == [health : {"healthy", "unreachable"}, chat : {"ok", "timeout"},
                 echo : BOOLEAN]

ChatEcho ==
    Chat(Messages, ChatConvIds, {<<>>}, DspyEchoEnvs, {AllUp}, {TRUE}, {TRUE}, MaxStore,
         MaxMessageCount)

NextEcho == ChatEcho \/ Respond \/ Tick

SpecEcho == Init /\ [][NextEcho]_vars

\* C26: the conversation id generateResponse returns is the id under which
\* the records of the turn were stored (the id of the request when it has
\* one), on the enhanced path and on the direct path
C26_ReturnedIdIsStoredId ==
    (ChatDone /\ out.status = 200) =>
       /\ \A k \in 1..Len(TurnRecords) :
             TurnRecords[k].conversationId = out.reply.conversationId
       /\ out.scope # NoConv => out.reply.conversationId = out.scope

\* ----------------------------------------- newly created conversation ids
\* chat requests in flight while time passes
NextNewIds ==
    BeginChat \/ DspyAnswers \/ Timeouts \/ ProviderAnswers \/ EmbeddingAnswers \/ Tick

SpecNewIds == Init /\ [][NextNewIds]_vars

\* the request came without a conversation id: its id was created for it
NewlyCreated(call) == call.op = "chat" /\ call.conversationId \notin ChatConvIds

\* C27: two chat requests that come without a conversation id get distinct
\* new ids, also when they are handled at the same clock value, so that their
\* turns are not stored under one conversation
C27_NewIdsDistinct ==
    \A i \in 1..Len(calls) : \A j \in 1..Len(calls) :
       (i # j /\ NewlyCreated(calls[i]) /\ NewlyCreated(calls[j])) =>
          calls[i].conversationId # calls[j].conversationId

\* C28: the filesProcessed count of the chat endpoint is the number of
\* attachments that were classified as supported and passed to generation;
\* attachments dropped as unsupported are not counted
C28_CountsSupportedOnly ==
    (ChatDone /\ out.status = 200) => out.filesProcessed = Len(out.processedFiles)

\* ---------------------------------------------------------- Admin model
MaxLoaded == 2           \* Admin documents held by handlers at one time
MaxHours == 4            \* the clock of the Admin model, in hours
MaxStoredAttempts == 6   \* the stored loginAttempts the model follows

\* the attempts at which incrementLoginAttempts locks the account
MaxLoginAttempts == 5

\* the lock of incrementLoginAttempts lasts 1 * 60 * 60 * 1000 ms
LockHours == 1

NoFields == [f \in {} |-> 0]

\* an object literal: of two properties of one name the later one stays
ObjectLiteral(entries) ==
    [key \in {entries[k].key : k \in 1..Len(entries)} |->
        entries[CHOOSE k \in 1..Len(entries) :
                   /\ entries[k].key = key
                   /\ \A j \in (k + 1)..Len(entries) : entries[j].key # key].value]

Operator(update, op) == IF op \in DOMAIN update THEN update[op] ELSE NoFields

\* document.updateOne(update): the update operators applied, in one step, to
\* the stored document (not to the copy the caller holds)
updateOne(doc, update) ==
    [f \in DOMAIN doc |->
        IF f \in DOMAIN Operator(update, "$unset") THEN NoDate
        ELSE IF f \in DOMAIN Operator(update, "$set") THEN Operator(update, "$set")[f]
        ELSE IF f \in DOMAIN Operator(update, "$inc")
        THEN doc[f] + Operator(update, "$inc")[f]
        ELSE doc[f]]

\* isLocked of the document `this`
isLocked(this, now) == this.lockUntil # NoDate /\ this.lockUntil > now

\* incrementLoginAttempts: the update it sends, decided on the fields of
\* `this`, the document as the caller read it
incrementLoginAttempts(this, now) ==
    IF this.lockUntil # NoDate /\ this.lockUntil < now
    THEN ObjectLiteral(<<[key |-> "$set", value |-> [loginAttempts |-> 1]],
                         [key |-> "$unset", value |-> [lockUntil |-> 1]]>>)
    ELSE IF this.loginAttempts + 1 >= MaxLoginAttempts
    THEN ObjectLiteral(<<[key |-> "$inc", value |-> [loginAttempts |-> 1]],
                         [key |-> "$set", value |-> [lockUntil |-> now + LockHours]]>>)
    ELSE ObjectLiteral(<<[key |-> "$inc", value |-> [loginAttempts |-> 1]]>>)

\* recordLogin: the update it sends; the literal names $set twice
recordLogin(now) ==
    ObjectLiteral(<<[key |-> "$set", value |-> [lastLogin |-> now]],
                    [key |-> "$unset", value |-> [lockUntil |-> 1]],
                    [key |-> "$set", value |-> [loginAttempts |-> 0]]>>)

Without(seq, i) == SubSeq(seq, 1, i - 1) \o SubSeq(seq, i + 1, Len(seq))

AdminOut(op, this) == [OutNone EXCEPT !.op = op, !.message = this]

AdminFrame ==
    UNCHANGED <<apiKey, isEnabled, fallbackToGemini, vectorStore, idCounter,
                isInitialized, isHealthy, lastHealthCheck, conversations, calls,
                fileDocs, page, posts>>

\* a handler reads the Admin document
LoadAdmin ==
    /\ Len(loaded) < MaxLoaded
    /\ loaded' = Append(loaded, admin)
    /\ out' = AdminOut("load", admin)
    /\ UNCHANGED <<admin, clock>>
    /\ AdminFrame

\* a handler calls incrementLoginAttempts on the document it holds
IncrementLoginAttempts ==
    \E i \in 1..Len(loaded) :
       /\ admin.loginAttempts < MaxStoredAttempts
       /\ admin' = updateOne(admin, incrementLoginAttempts(loaded[i], clock))
       /\ loaded' = Without(loaded, i)
       /\ out' = AdminOut("incrementLoginAttempts", loaded[i])
       /\ UNCHANGED clock
       /\ AdminFrame

\* a handler calls recordLogin on the document it holds
RecordLogin ==
    \E i \in 1..Len(loaded) :
       /\ admin' = updateOne(admin, recordLogin(clock))
       /\ loaded' = Without(loaded, i)
       /\ out' = AdminOut("recordLogin", loaded[i])
       /\ UNCHANGED clock
       /\ AdminFrame

HourPasses ==
    /\ clock < MaxHours
    /\ clock' = clock + 1
    /\ UNCHANGED <<admin, loaded, out>>
    /\ AdminFrame

NextAdmin == LoadAdmin \/ IncrementLoginAttempts \/ RecordLogin \/ HourPasses

SpecAdmin == InitPage /\ [][NextAdmin]_vars

\* this step is a call of the method on a document a handler held
Called(method) == out'.op = method /\ Len(loaded') < Len(loaded)

\* C29: whenever incrementLoginAttempts leaves the stored loginAttempts at 5
\* or more, the account is locked, lockUntil being a time still to come; also
\* when the call was made on a document read before another call's update
C29_LockedAtFiveAttempts ==
    [][(Called("incrementLoginAttempts")
          /\ admin'.loginAttempts >= MaxLoginAttempts)
         => isLocked(admin', clock')]_vars

\* C30: after recordLogin the stored account has lastLogin at the time of
\* the login, loginAttempts 0 and no lockUntil, whatever it held before
C30_LoginRecorded ==
    [][Called("recordLogin") =>
          /\ admin'.lastLogin = clock
          /\ admin'.loginAttempts = 0
          /\ admin'.lockUntil = NoDate]_vars

====
